---- MODULE Spec2Model ----
(***************************************************************************)
(* Model of the WeKan filesystem mirror: the filename codec (utils.py),    *)
(* the card serializer (models.py, cloner.py) and the reconciliation       *)
(* engine (pusher.py).                                                     *)
(*                                                                         *)
(* Text is modelled character by character: a string is a sequence of      *)
(* one-character strings, so that strip, startswith, split and the         *)
(* regular-expression substitutions are computed as Python computes them.  *)
(***************************************************************************)
EXTENDS Integers, Sequences, FiniteSets, TLC

(***************************************************************************)
(* Python string primitives                                                *)
(***************************************************************************)

\* The characters Python's str.strip() and the regex class \s treat as blank.
Whitespace == {" ", "\n", "\t", "\r"}

\* s[i:] for a 0-based Python index i, as a sequence.
Drop(s, n) == IF n >= Len(s) THEN <<>> ELSE SubSeq(s, n + 1, Len(s))

\* s[:n]
Take(s, n) == IF n >= Len(s) THEN s ELSE SubSeq(s, 1, n)

\* str.startswith
StartsWith(s, p) == Len(p) <= Len(s) /\ SubSeq(s, 1, Len(p)) = p

\* Number of leading characters of s that belong to cs.
RECURSIVE LeadingIn(_, _, _)
LeadingIn(s, cs, i) ==
    IF i <= Len(s) /\ s[i] \in cs THEN LeadingIn(s, cs, i + 1) ELSE i - 1

\* Number of trailing characters of s that belong to cs.
RECURSIVE TrailingIn(_, _, _)
TrailingIn(s, cs, i) ==
    IF i >= 1 /\ s[i] \in cs THEN TrailingIn(s, cs, i - 1) ELSE Len(s) - i

\* str.lstrip(chars)
LStrip(s, cs) == Drop(s, LeadingIn(s, cs, 1))

\* str.rstrip(chars)
RStrip(s, cs) == Take(s, Len(s) - TrailingIn(s, cs, Len(s)))

\* str.strip(chars); str.strip() is Strip(s, Whitespace)
Strip(s, cs) == RStrip(LStrip(s, cs), cs)

\* str.find(sep) from position i (1-based); 0 when sep does not occur.
Find(s, sep, i) ==
    LET hits == {k \in i..(Len(s) - Len(sep) + 1) : SubSeq(s, k, k + Len(sep) - 1) = sep}
    IN  IF hits = {} THEN 0 ELSE CHOOSE k \in hits : \A j \in hits : k <= j

\* "sep in s"
Contains(s, sep) == Find(s, sep, 1) # 0

\* str.split(sep, maxsplit): the list of parts.
RECURSIVE Split(_, _, _)
Split(s, sep, maxsplit) ==
    LET k == Find(s, sep, 1) IN
    IF maxsplit = 0 \/ k = 0 THEN <<s>>
    ELSE <<SubSeq(s, 1, k - 1)>> \o Split(Drop(s, k + Len(sep) - 1), sep, maxsplit - 1)

\* str.lower() on the letters the model uses.
LowerChar(c) == IF c = "Y" THEN "y" ELSE IF c = "N" THEN "n" ELSE c

Lower(s) == [i \in 1..Len(s) |-> LowerChar(s[i])]

\* "\n".join(parts)
RECURSIVE JoinLines(_)
JoinLines(parts) ==
    IF parts = <<>> THEN <<>>
    ELSE IF Len(parts) = 1 THEN parts[1]
    ELSE parts[1] \o <<"\n">> \o JoinLines(Tail(parts))

(***************************************************************************)
(* utils.py: sanitize_filename                                             *)
(***************************************************************************)

\* The character class [<>:"/\\|?*] of the first substitution.
UnsafeChars == {"<", ">", ":", "\"", "/", "\\", "|", "?", "*"}

\* The characters str.strip("_. ") removes.
TrimChars == {"_", ".", " "}

\* The truncation length of sanitize_filename.
MaxNameLen == 200

\* re.sub(r'[<>:"/\\|?*]', "_", name)
ReplaceUnsafe(name) ==
    [i \in 1..Len(name) |-> IF name[i] \in UnsafeChars THEN "_" ELSE name[i]]

\* re.sub(r"[_\s]+", "_", name) from position i on: every maximal run becomes
\* one underscore, written where the run starts.
CollapseRuns(name, i) ==
    LET inRun(k) == name[k] \in Whitespace \cup {"_"}
        positions == [k \in 1..(Len(name) - i + 1) |-> k + i - 1]
        kept == SelectSeq(positions, LAMBDA k : ~(inRun(k) /\ k > 1 /\ inRun(k - 1)))
    IN  [j \in 1..Len(kept) |-> IF inRun(kept[j]) THEN "_" ELSE name[kept[j]]]

Untitled == <<"u", "n", "t", "i", "t", "l", "e", "d">>

\* A sanitizer that leaves the name as the cut at 200 characters left it.
sanitize_cut_only(name) ==
    LET stripped == Strip(CollapseRuns(ReplaceUnsafe(name), 1), TrimChars)
        cut == IF Len(stripped) > MaxNameLen THEN Take(stripped, MaxNameLen) ELSE stripped
    IN  IF cut = <<>> THEN Untitled ELSE cut

\* A sanitizer without the fallback name.
sanitize_no_fallback(name) ==
    LET stripped == Strip(CollapseRuns(ReplaceUnsafe(name), 1), TrimChars)
    IN  IF Len(stripped) > MaxNameLen
        THEN RStrip(Take(stripped, MaxNameLen), TrimChars)
        ELSE stripped

sanitize_filename(name) ==
    LET replaced == ReplaceUnsafe(name)
        collapsed == CollapseRuns(replaced, 1)
        stripped == Strip(collapsed, TrimChars)
        cut == IF Len(stripped) > MaxNameLen
               THEN RStrip(Take(stripped, MaxNameLen), TrimChars)
               ELSE stripped
    IN  IF cut = <<>> THEN Untitled ELSE cut

(***************************************************************************)
(* YAML preamble: yaml.dump / yaml.safe_load on a flat mapping of scalars  *)
(***************************************************************************)

\* A scalar value as Python sees it after safe_load: its type and its text.
StrVal(s) == [t |-> "str", v |-> s]

NoneVal == [t |-> "none", v |-> <<>>]

IntVal(digits) == [t |-> "int", v |-> digits]

BoolVal(word) == [t |-> "bool", v |-> word]

DigitChars == {"0", "1", "2", "3", "4", "5", "6", "7", "8", "9"}

DigitOf == <<"0", "1", "2", "3", "4", "5", "6", "7", "8", "9">>

\* str(n) for a natural number n.
RECURSIVE IntStr(_)
IntStr(n) == IF n < 10 THEN <<DigitOf[n + 1]>> ELSE IntStr(n \div 10) \o <<DigitOf[(n % 10) + 1]>>

\* The words the YAML resolver reads as null or as a boolean instead of a string.
NullWords == {<<>>, <<"~">>, <<"n", "u", "l", "l">>}

BoolWords == {<<"t", "r", "u", "e">>, <<"f", "a", "l", "s", "e">>}

IsDigits(s) == s # <<>> /\ \A i \in 1..Len(s) : s[i] \in DigitChars

\* Characters that cannot start a plain scalar.
Indicators == {"#", "-", "'", "\"", "[", "]", "{", "}", ">", "|", "*", "&", "!", "%", "@", "?", ":", ","}

\* Whether the emitter may write the string without quotes.
PlainSafe(s) ==
    /\ s \notin NullWords \cup BoolWords
    /\ ~IsDigits(s)
    /\ s[1] \notin Indicators \cup Whitespace
    /\ s[Len(s)] \notin Whitespace \cup {":"}
    /\ ~Contains(s, <<":", " ">>)
    /\ ~Contains(s, <<" ", "#">>)
    /\ ~Contains(s, <<"\n">>)

\* The quote character is doubled inside a single-quoted scalar.
RECURSIVE QuoteEscape(_, _)
QuoteEscape(s, i) ==
    IF i > Len(s) THEN <<>>
    ELSE (IF s[i] = "'" THEN <<"'", "'">> ELSE <<s[i]>>) \o QuoteEscape(s, i + 1)

RECURSIVE QuoteUnescape(_, _)
QuoteUnescape(s, i) ==
    IF i > Len(s) THEN <<>>
    ELSE IF s[i] = "'" /\ i < Len(s) /\ s[i + 1] = "'"
         THEN <<"'">> \o QuoteUnescape(s, i + 2)
         ELSE <<s[i]>> \o QuoteUnescape(s, i + 1)

\* The text yaml.dump writes for one scalar value.
YamlEmitScalar(val) ==
    IF val.t = "none" THEN <<"n", "u", "l", "l">>
    ELSE IF val.t \in {"int", "bool"} THEN val.v
    ELSE IF PlainSafe(val.v) THEN val.v
    ELSE <<"'">> \o QuoteEscape(val.v, 1) \o <<"'">>

\* The value yaml.safe_load reads from the text after "key:".
YamlParseScalar(text) ==
    LET w == Strip(text, {" ", "\t"}) IN
    IF Len(w) >= 2 /\ w[1] = "'" /\ w[Len(w)] = "'"
    THEN StrVal(QuoteUnescape(SubSeq(w, 2, Len(w) - 1), 1))
    ELSE IF w \in NullWords THEN NoneVal
    ELSE IF w \in BoolWords THEN BoolVal(w)
    ELSE IF IsDigits(w) THEN IntVal(w)
    ELSE StrVal(w)

\* yaml.dump(mapping, default_flow_style=False): one "key: value" line per
\* key, keys in sorted order (entries is given in that order).
RECURSIVE YamlDump(_)
YamlDump(entries) ==
    IF entries = <<>> THEN <<>>
    ELSE entries[1][1] \o <<":", " ">> \o YamlEmitScalar(entries[1][2]) \o <<"\n">>
         \o YamlDump(Tail(entries))

\* One line of a block mapping: <<key, value>>, or <<>> when the line is not
\* a "key: value" entry.
YamlLine(line) ==
    LET k == Find(line, <<":", " ">>, 1) IN
    IF k > 1 THEN <<SubSeq(line, 1, k - 1), YamlParseScalar(Drop(line, k + 1))>>
    ELSE IF Len(line) >= 2 /\ line[Len(line)] = ":" THEN <<Take(line, Len(line) - 1), NoneVal>>
    ELSE <<>>

\* yaml.safe_load(text): kind "map" with the mapping (a later duplicate key
\* overrides), kind "none" for an empty document, kind "other" for a document
\* that is no mapping (a scalar, a list, or a YAML error).
YamlLoad(text) ==
    LET lines == SelectSeq(Split(text, <<"\n">>, -1), LAMBDA l : Strip(l, Whitespace) # <<>>)
        pairs == [i \in 1..Len(lines) |-> YamlLine(lines[i])]
        keys == {pairs[i][1] : i \in {j \in 1..Len(lines) : pairs[j] # <<>>}}
        last(k) == CHOOSE i \in 1..Len(lines) :
                       /\ pairs[i] # <<>> /\ pairs[i][1] = k
                       /\ \A j \in (i + 1)..Len(lines) : pairs[j] = <<>> \/ pairs[j][1] # k
    IN  IF lines = <<>> THEN [kind |-> "none", map |-> <<>>]
        ELSE IF \E i \in 1..Len(lines) : pairs[i] = <<>> THEN [kind |-> "other", map |-> <<>>]
        ELSE [kind |-> "map", map |-> [k \in keys |-> pairs[last(k)][2]]]

\* dict.get(key, default) on a loaded mapping.
Get(map, key, default) == IF key \in DOMAIN map THEN map[key] ELSE default

(***************************************************************************)
(* The remote board and the names used in the tree                         *)
(***************************************************************************)

Todo == <<"T", "o", "d", "o">>

OnHold == <<"O", "n", " ", "h", "o", "l", "d">>

NewDir == <<"N", "e", "w">>

\* The lists of the board in the order get_lists returns them, as
\* <<list id, title>>.  Neither clone nor push creates or removes a list.
Lists == << <<"L1", Todo>>, <<"L2", OnHold>> >>

ListIds == {Lists[i][1] : i \in 1..Len(Lists)}

ListTitle(lid) == Lists[CHOOSE i \in 1..Len(Lists) : Lists[i][1] = lid][2]

\* The markers and headings save_content writes.
Marker == <<"-", "-", "-">>

MarkerLine == <<"-", "-", "-", "\n">>

DescriptionHeading == <<"#", "#", " ", "D", "e", "s", "c", "r", "i", "p", "t", "i", "o", "n">>

KArchived == <<"a", "r", "c", "h", "i", "v", "e", "d">>

KCardNumber == <<"c", "a", "r", "d", "_", "n", "u", "m", "b", "e", "r">>

KId == <<"i", "d">>

KTitle == <<"t", "i", "t", "l", "e">>

DotMd == <<".", "m", "d">>

ExportBoard == <<"e", "x", "p", "o", "r", "t", "-", "b", "o", "a", "r", "d", "-">>

ConfigMd == <<"c", "o", "n", "f", "i", "g", ".", "m", "d">>

WekanListDir == <<".", "w", "e", "k", "a", "n", "-", "l", "i", "s", "t">>

(***************************************************************************)
(* models.py, cloner.py: the card serializer                               *)
(***************************************************************************)

\* f"{n:03d}": at least three digits, zero padded.
Format03d(n) ==
    LET d == IntStr(n) IN
    IF Len(d) >= 3 THEN d ELSE IF Len(d) = 2 THEN <<"0">> \o d ELSE <<"0", "0">> \o d

\* _clone_card: the card name handed to WekanCardFS; card_number 0 stands for
\* a card without a number.
CardName(card) ==
    IF card.card_number # 0
    THEN Format03d(card.card_number) \o <<"-">> \o sanitize_filename(card.title)
    ELSE sanitize_filename(card.title)

\* A file name taken from the card name as it is handed over.
CardFileNameAsGiven(card) == CardName(card) \o DotMd

\* WekanCardFS.__init__: the file name, sanitized once more, plus ".md".
CardFileName(card) == sanitize_filename(CardName(card)) \o DotMd

\* The preamble mapping of save_content in the key order yaml.dump sorts it
\* to.  The timestamp, sort and swimlane entries are scalars no reader of the
\* tree looks at; the model's card does not carry them.
Frontmatter(card) ==
    << <<KArchived, BoolVal(<<"f", "a", "l", "s", "e">>)>>,
       <<KCardNumber, IF card.card_number = 0 THEN NoneVal ELSE IntVal(IntStr(card.card_number))>>,
       <<KId, StrVal(card.id)>>,
       <<KTitle, StrVal(card.title)>> >>

\* WekanCardFS.save_content: the text of the card file (a card without
\* checklists and comments).
save_content(card) ==
    LET yaml == Strip(YamlDump(Frontmatter(card)), Whitespace)
        front == <<Marker, yaml, Marker, <<>>, <<"#", " ">> \o card.title, <<>> >>
        desc == IF card.description # <<>>
                THEN <<DescriptionHeading, card.description, <<>> >>
                ELSE <<>>
    IN  JoinLines(front \o desc)

\* WekanListFS.save_metadata: the descriptor of a list; only its heading line
\* and id line are modelled.
ListConfig(lid) ==
    <<"#", " ">> \o ListTitle(lid) \o <<"\n", "\n", "*", "*", "I", "D", ":", "*", "*", " ">>
    \o <<lid>> \o <<"\n">>

(***************************************************************************)
(* pusher.py: the local snapshot reader                                    *)
(***************************************************************************)

\* A path is the sequence of its components below the board directory.
FileName(path) == path[Len(path)]

\* md_file.parent.name; a file directly in the board directory has the board
\* directory as parent, which is no list directory.
ParentName(path) == IF Len(path) >= 2 THEN path[Len(path) - 1] ELSE <<>>

EndsWith(s, p) == Len(p) <= Len(s) /\ SubSeq(s, Len(s) - Len(p) + 1, Len(s)) = p

\* A reader that takes a file for a card file by the number its name starts with.
IsCandidateNumbered(path) ==
    /\ EndsWith(FileName(path), DotMd)
    /\ FileName(path)[1] \in DigitChars

\* The files rglob("*.md") yields and the name test does not skip.
IsCandidate(path) ==
    /\ EndsWith(FileName(path), DotMd)
    /\ ~(FileName(path)[1] = "." \/ Contains(FileName(path), ExportBoard))

\* Python truth value of a loaded scalar.
Truthy(val) ==
    CASE val.t = "str" -> val.v # <<>>
      [] val.t = "int" -> \E i \in 1..Len(val.v) : val.v[i] # "0"
      [] val.t = "bool" -> val.v = <<"t", "r", "u", "e">>
      [] OTHER -> FALSE

\* A parse that makes a record of every file with a mapping as preamble,
\* whether the mapping has an id or not.
ParseCardAnyId(path, content) ==
    LET parts == Split(content, MarkerLine, 2)
        fm == YamlLoad(parts[2])
    IN  IF StartsWith(content, MarkerLine) /\ Len(parts) >= 3 /\ fm.kind = "map"
        THEN [ok |-> TRUE, id |-> Get(fm.map, KId, NoneVal), frontmatter |-> fm.map,
              body |-> Strip(parts[3], Whitespace), file_path |-> path,
              list_name |-> ParentName(path)]
        ELSE [ok |-> FALSE]

\* The parse of one card file: whether it yields a card record, and the
\* record.  A preamble that is not a mapping makes frontmatter.get raise,
\* which the reader catches and the file yields nothing.
ParseCard(path, content) ==
    LET parts == Split(content, MarkerLine, 2)
        fm == YamlLoad(parts[2])
        card_id == Get(fm.map, KId, NoneVal)
    IN  IF StartsWith(content, MarkerLine) /\ Len(parts) >= 3 /\ fm.kind = "map" /\ Truthy(card_id)
        THEN [ok |-> TRUE, id |-> card_id, frontmatter |-> fm.map,
              body |-> Strip(parts[3], Whitespace), file_path |-> path,
              list_name |-> ParentName(path)]
        ELSE [ok |-> FALSE]

\* cards[card_id] = record on a dict kept as the sequence of its items: an
\* existing key keeps its position and takes the new value.
DictPut(items, rec) ==
    IF \E i \in 1..Len(items) : items[i].id = rec.id
    THEN [i \in 1..Len(items) |-> IF items[i].id = rec.id THEN rec ELSE items[i]]
    ELSE Append(items, rec)

\* _load_filesystem_cards: the tree is the sequence of its files, each a
\* path and a text, in the order the walk rglob("*.md") yields them.
RECURSIVE LoadFrom(_, _, _)
LoadFrom(tree, i, cards) ==
    IF i > Len(tree) THEN cards
    ELSE LET rec == ParseCard(tree[i].path, tree[i].text) IN
         LoadFrom(tree, i + 1,
                  IF IsCandidate(tree[i].path) /\ rec.ok THEN DictPut(cards, rec) ELSE cards)

load_filesystem_cards(tree) == LoadFrom(tree, 1, <<>>)

(***************************************************************************)
(* pusher.py: the remote snapshot                                          *)
(***************************************************************************)

\* The remote board is the sequence of its cards in the order of creation;
\* list_obj.get_cards() yields the cards of the list that are not archived.
get_cards(remote, lid) ==
    SelectSeq(remote, LAMBDA c : c.list = lid /\ ~c.archived)

\* _load_server_cards: one item per card, lists in board order.  A remote
\* call that raises ends the loop and the cards gathered so far are returned:
\* upto is the number of lists read before that (Len(Lists) when none raises,
\* 0 when list_boards or get_lists raises or the board is not found).
RECURSIVE ServerFrom(_, _, _)
ServerFrom(remote, l, upto) ==
    IF l > upto THEN <<>>
    ELSE LET cs == get_cards(remote, Lists[l][1]) IN
         [k \in 1..Len(cs) |->
             [id |-> StrVal(cs[k].id), card |-> cs[k],
              list_name |-> sanitize_filename(Lists[l][2]), list_id |-> Lists[l][1]]]
         \o ServerFrom(remote, l + 1, upto)

load_server_cards(remote, upto) == ServerFrom(remote, 1, upto)

(***************************************************************************)
(* pusher.py: change detection                                             *)
(***************************************************************************)

\* A key a payload does not have.
Absent == [t |-> "absent", v |-> <<>>]

NoData == [title |-> Absent, description |-> Absent, list_name |-> Absent]

NoPath == <<>>

\* str(value) as an f-string formats it.
PyStr(val) ==
    CASE val.t = "none" -> <<"N", "o", "n", "e">>
      [] val.t = "bool" -> IF val.v = <<"t", "r", "u", "e">> THEN <<"T", "r", "u", "e">>
                           ELSE <<"F", "a", "l", "s", "e">>
      [] OTHER -> val.v

\* The local body without the generated "# <title>" heading and the blank
\* lines after it.
NormalizeBody(fs_title, body) ==
    LET fs_description == Strip(body, Whitespace)
        expected_header == <<"#", " ">> \o PyStr(fs_title)
    IN  IF StartsWith(fs_description, expected_header)
        THEN Strip(LStrip(Drop(fs_description, Len(expected_header)), {"\n"}), Whitespace)
        ELSE fs_description

\* The item of the remote snapshot with this id.
ServerCard(server_cards, id) ==
    server_cards[CHOOSE i \in 1..Len(server_cards) : server_cards[i].id = id]

HasId(cards, id) == \E i \in 1..Len(cards) : cards[i].id = id

UpdateChange(fs_card, server_card) ==
    [type |-> "update", card_id |-> fs_card.id, file_path |-> fs_card.file_path,
     old_data |-> [title |-> StrVal(server_card.card.title),
                   description |-> StrVal(server_card.card.description),
                   list_name |-> StrVal(server_card.list_name)],
     new_data |-> [title |-> Get(fs_card.frontmatter, KTitle, NoneVal),
                   description |-> StrVal(fs_card.body),
                   list_name |-> StrVal(fs_card.list_name)]]

\* A move recorded from the local list to the remote one.
MoveChangeSwapped(fs_card, server_card) ==
    [type |-> "move", card_id |-> fs_card.id, file_path |-> NoPath,
     old_data |-> [NoData EXCEPT !.list_name = StrVal(fs_card.list_name)],
     new_data |-> [NoData EXCEPT !.list_name = StrVal(server_card.list_name)]]

MoveChange(fs_card, server_card) ==
    [type |-> "move", card_id |-> fs_card.id, file_path |-> NoPath,
     old_data |-> [NoData EXCEPT !.list_name = StrVal(server_card.list_name)],
     new_data |-> [NoData EXCEPT !.list_name = StrVal(fs_card.list_name)]]

\* A create that carries the body with the generated heading taken off.
CreateChangeNormalized(fs_card) ==
    [type |-> "create", card_id |-> NoneVal, file_path |-> fs_card.file_path,
     old_data |-> NoData,
     new_data |-> [title |-> Get(fs_card.frontmatter, KTitle, NoneVal),
                   description |-> StrVal(NormalizeBody(Get(fs_card.frontmatter, KTitle, NoneVal),
                                                        fs_card.body)),
                   list_name |-> StrVal(fs_card.list_name)]]

CreateChange(fs_card) ==
    [type |-> "create", card_id |-> NoneVal, file_path |-> fs_card.file_path,
     old_data |-> NoData,
     new_data |-> [title |-> Get(fs_card.frontmatter, KTitle, NoneVal),
                   description |-> StrVal(fs_card.body),
                   list_name |-> StrVal(fs_card.list_name)]]

DeleteChange(server_card) ==
    [type |-> "delete", card_id |-> server_card.id, file_path |-> NoPath,
     old_data |-> [NoData EXCEPT !.title = StrVal(server_card.card.title),
                                 !.list_name = StrVal(server_card.list_name)],
     new_data |-> NoData]

\* A content test that compares the body as read, heading included.
ContentChangedRaw(fs_card, server_card) ==
    \/ Get(fs_card.frontmatter, KTitle, StrVal(<<>>)) # StrVal(server_card.card.title)
    \/ Strip(fs_card.body, Whitespace) # server_card.card.description

\* The content test of the first loop: title or normalized body differs.
ContentChanged(fs_card, server_card) ==
    LET fs_title == Get(fs_card.frontmatter, KTitle, StrVal(<<>>))
        title_changed == fs_title # StrVal(server_card.card.title)
        description_changed ==
            NormalizeBody(fs_title, fs_card.body) # server_card.card.description
    IN  title_changed \/ description_changed

ListChanged(fs_card, server_card) == fs_card.list_name # server_card.list_name

\* A first loop that looks at the list only when the content is unchanged.
ChangesOfLocalEither(fs_card, server_cards) ==
    IF HasId(server_cards, fs_card.id)
    THEN LET server_card == ServerCard(server_cards, fs_card.id) IN
         IF ContentChanged(fs_card, server_card)
         THEN <<UpdateChange(fs_card, server_card)>>
         ELSE IF ListChanged(fs_card, server_card)
              THEN <<MoveChange(fs_card, server_card)>> ELSE <<>>
    ELSE <<CreateChange(fs_card)>>

\* The changes the first loop appends for one local card.
ChangesOfLocal(fs_card, server_cards) ==
    IF HasId(server_cards, fs_card.id)
    THEN LET server_card == ServerCard(server_cards, fs_card.id) IN
         (IF ContentChanged(fs_card, server_card)
          THEN <<UpdateChange(fs_card, server_card)>> ELSE <<>>)
         \o (IF ListChanged(fs_card, server_card)
             THEN <<MoveChange(fs_card, server_card)>> ELSE <<>>)
    ELSE <<CreateChange(fs_card)>>

RECURSIVE LocalLoop(_, _, _)
LocalLoop(fs_cards, server_cards, i) ==
    IF i > Len(fs_cards) THEN <<>>
    ELSE ChangesOfLocal(fs_cards[i], server_cards) \o LocalLoop(fs_cards, server_cards, i + 1)

\* The second loop: a delete for every remote card without a local record.
RECURSIVE DeleteLoop(_, _, _)
DeleteLoop(fs_cards, server_cards, i) ==
    IF i > Len(server_cards) THEN <<>>
    ELSE (IF ~HasId(fs_cards, server_cards[i].id)
          THEN <<DeleteChange(server_cards[i])>> ELSE <<>>)
         \o DeleteLoop(fs_cards, server_cards, i + 1)

\* A detection without the second loop.
detect_local_changes(fs_cards, server_cards) == LocalLoop(fs_cards, server_cards, 1)

\* A detection that runs the second loop before the first.
detect_deletes_first(fs_cards, server_cards) ==
    DeleteLoop(fs_cards, server_cards, 1) \o LocalLoop(fs_cards, server_cards, 1)

\* A detection whose second loop deletes every remote card.
detect_delete_all(fs_cards, server_cards) ==
    LocalLoop(fs_cards, server_cards, 1) \o DeleteLoop(<<>>, server_cards, 1)

detect_card_changes(fs_cards, server_cards) ==
    LocalLoop(fs_cards, server_cards, 1) \o DeleteLoop(fs_cards, server_cards, 1)

(***************************************************************************)
(* Bounds and input sets                                                   *)
(***************************************************************************)

\* Edits the user makes to the local tree.
MaxEdits == 1

\* Push runs.
MaxPushes == 2

\* Remote calls that raise.
MaxFaults == 1

TitleA == <<"a">>

TitleB == <<"b">>

Titles == {TitleA, TitleB}

TextX == <<"x">>

TextY == <<"y">>

IdC1 == <<"c", "1">>

IdC2 == <<"c", "2">>

IdA1 == <<"A", "1">>

Card(id, title, description, list, card_number) ==
    [id |-> id, title |-> title, description |-> description, list |-> list,
     archived |-> FALSE, card_number |-> card_number]

\* The boards the model starts from: no card; one card without and with a
\* description; two cards in two lists; two cards of one list that have the
\* same title and no card number.
InitialBoards ==
    { <<>>,
      <<Card(IdC1, TitleA, TextX, "L1", 1)>>,
      <<Card(IdC1, TitleA, <<>>, "L1", 1), Card(IdC2, TitleB, <<>>, "L2", 0)>>,
      <<Card(IdC1, TitleA, <<>>, "L1", 0), Card(IdC2, TitleA, <<>>, "L1", 0)>> }

\* The answers typed at the confirmation prompt: the capital the prompt
\* offers as lower case, a refusal, and a word that only starts with y.
Answers == {<<"Y">>, <<"n">>, <<"y", "e", "s">>}

(***************************************************************************)
(* State                                                                   *)
(***************************************************************************)

VARIABLES
    remote,         \* the cards of the remote board, in creation order
    tree,           \* the local board directory: its files in walk order
    pc,             \* where the push invocation stands
    dry_run, force, \* the flags of the invocation
    fs_cards,       \* the local snapshot of the last detect
    server_cards,   \* the remote snapshot of the last detect
    loaded,         \* lists read into the remote snapshot before a call raised
    changes,        \* the detected change list
    answer,         \* what was typed at the prompt; Unasked before that
    idx,            \* apply loop: position in the change list
    success_count,  \* apply loop: changes applied successfully
    result,         \* what push_board returned
    calls,          \* mutating remote calls of this invocation: <<kind, card id>>
    clean,          \* the last push applied all its changes, nothing edited since
    edits,          \* user edits so far
    pushes,         \* push invocations so far
    faults,         \* remote calls that raised so far
    host_boards,    \* the boards the service holds for the host that is cloned
    board_filter,   \* the board filter of clone_host; NoFilter when none is given
    failing,        \* the calls and file writes that raise during the clone pass
    cpc,            \* where clone_host stands
    selected,       \* the boards clone_host goes on to clone
    bidx,           \* clone loop: position in the selected boards
    written,        \* the files written in this clone pass, in order
    called,         \* the function of utils.py or models.py called on its own
    arg,            \* the string handed to it
    ret             \* what it returned

vars == <<remote, tree, pc, dry_run, force, fs_cards, server_cards, loaded, changes,
          answer, idx, success_count, result, calls, clean, edits, pushes, faults,
          host_boards, board_filter, failing, cpc, selected, bidx, written,
          called, arg, ret>>

callVars == <<called, arg, ret>>

hostVars == <<host_boards, board_filter, failing, cpc, selected, bidx, written>>

runVars == <<dry_run, force, fs_cards, server_cards, loaded, changes, answer, idx,
             success_count, result, calls>>

Unasked == <<"-">>

NoFilter == <<"-", "-">>

\* The host variables while no clone of a host runs.
NoHost ==
    /\ host_boards = <<>>
    /\ board_filter = NoFilter
    /\ failing = {}
    /\ cpc = "off"
    /\ selected = <<>>
    /\ bidx = 0
    /\ written = <<>>

\* The call variables while no function is called on its own.
NoCall ==
    /\ called = "none"
    /\ arg = <<>>
    /\ ret = <<>>

\* The run variables outside a push invocation.
NoRun ==
    /\ dry_run' = FALSE /\ force' = FALSE
    /\ fs_cards' = <<>> /\ server_cards' = <<>> /\ loaded' = 0
    /\ changes' = <<>>
    /\ answer' = Unasked
    /\ idx' = 0 /\ success_count' = 0
    /\ result' = "none"
    /\ calls' = <<>>

Paths(t) == {t[i].path : i \in 1..Len(t)}

TextAt(t, path) == t[CHOOSE i \in 1..Len(t) : t[i].path = path].text

\* open(path, "w").write(text): an existing file keeps its place in the
\* walk, a new one is met last.
Write(t, path, text) ==
    IF path \in Paths(t)
    THEN [i \in 1..Len(t) |-> IF t[i].path = path THEN [path |-> path, text |-> text] ELSE t[i]]
    ELSE Append(t, [path |-> path, text |-> text])

Remove(t, path) == SelectSeq(t, LAMBDA e : e.path # path)

\* A copy the user adds: the walk may meet it first or last.
Place(t, path, text, first) ==
    IF first THEN <<[path |-> path, text |-> text]>> \o Remove(t, path)
    ELSE Append(Remove(t, path), [path |-> path, text |-> text])

Init ==
    /\ remote \in InitialBoards
    /\ tree = <<>>
    /\ pc = "idle"
    /\ dry_run = FALSE /\ force = FALSE
    /\ fs_cards = <<>> /\ server_cards = <<>> /\ loaded = 0
    /\ changes = <<>>
    /\ answer = Unasked
    /\ idx = 0 /\ success_count = 0
    /\ result = "none"
    /\ calls = <<>>
    /\ clean = FALSE
    /\ edits = 0 /\ pushes = 0 /\ faults = 0
    /\ NoHost
    /\ NoCall

(***************************************************************************)
(* cloner.py: clone of the board into the tree                             *)
(***************************************************************************)

\* A list directory named by the title as the service gives it.
ListDirNameRaw(title) == title

\* WekanListFS.__init__ on the name _clone_list hands it: sanitized twice.
ListDirName(title) == sanitize_filename(sanitize_filename(title))

\* _clone_card for the cards of one list, in order: each writes its file.
RECURSIVE CloneCards(_, _, _, _)
CloneCards(t, dir, cs, i) ==
    IF i > Len(cs) THEN t
    ELSE CloneCards(Write(t, <<dir, CardFileName(cs[i])>>, save_content(cs[i])), dir, cs, i + 1)

\* _clone_list for the lists from l on: the descriptor, then the cards.
RECURSIVE CloneLists(_, _, _)
CloneLists(t, board, l) ==
    IF l > Len(Lists) THEN t
    ELSE LET dir == ListDirName(Lists[l][2])
             withConfig == Write(t, <<dir, WekanListDir, ConfigMd>>, ListConfig(Lists[l][1]))
         IN  CloneLists(CloneCards(withConfig, dir, get_cards(board, Lists[l][1]), 1), board, l + 1)

\* _clone_board into an empty output directory, every remote call succeeding.
CloneBoard ==
    /\ pc = "idle"
    /\ tree = <<>>
    /\ tree' = CloneLists(tree, remote, 1)
    /\ clean' = FALSE
    /\ UNCHANGED <<remote, pc, runVars, edits, pushes, faults, hostVars, callVars>>

(***************************************************************************)
(* The user editing the local tree between clone and push                  *)
(***************************************************************************)

\* The card files of the tree: the files the reader turns into records.
CardFiles(t) == {p \in Paths(t) : IsCandidate(p) /\ ParseCard(p, TextAt(t, p)).ok}

TitlePrefix == KTitle \o <<":", " ">>

Heading(title) == <<"#", " ">> \o title

Keep == <<"k", "e", "e", "p">>

Retitled(line, title) ==
    IF StartsWith(line, TitlePrefix) THEN TitlePrefix \o YamlEmitScalar(StrVal(title)) ELSE line

\* The text of a card file with the title entry of its preamble rewritten
\* and, unless body is Keep, its body replaced.
Edited(text, title, body) ==
    LET parts == Split(text, MarkerLine, 2)
        lines == Split(parts[2], <<"\n">>, -1)
        preamble == JoinLines([i \in 1..Len(lines) |-> Retitled(lines[i], title)])
    IN  MarkerLine \o preamble \o MarkerLine
        \o (IF body = Keep THEN parts[3] ELSE <<"\n">> \o body \o <<"\n">>)

\* The bodies the user may leave in a file whose title is now title.
Bodies(title) == {Keep, Heading(title) \o <<"\n", "\n">> \o TextY, TextY}

LocalDirs == {ListDirName(Lists[i][2]) : i \in 1..Len(Lists)} \cup {NewDir}

NewFileName == <<"n", ".", "m", "d">>

\* A card file written by hand: a preamble with id and title, then the body.
Authored(id, title, body) ==
    MarkerLine \o YamlDump(<< <<KId, StrVal(id)>>, <<KTitle, StrVal(title)>> >>)
    \o MarkerLine \o <<"\n">> \o body \o <<"\n">>

\* The user edits the clone before pushing it.
UserStep ==
    /\ pc = "idle"
    /\ tree # <<>>
    /\ pushes = 0
    /\ edits < MaxEdits
    /\ edits' = edits + 1
    /\ clean' = FALSE
    /\ UNCHANGED <<remote, pc, runVars, pushes, faults, hostVars, callVars>>

UserEdit ==
    /\ UserStep
    /\ \E p \in CardFiles(tree), title \in Titles :
         \E body \in Bodies(title) :
            /\ Edited(TextAt(tree, p), title, body) # TextAt(tree, p)
            /\ tree' = Write(tree, p, Edited(TextAt(tree, p), title, body))

UserMove ==
    /\ UserStep
    /\ \E p \in CardFiles(tree) : \E dir \in LocalDirs \ {ParentName(p)} :
         tree' = Write(Remove(tree, p), <<dir, FileName(p)>>, TextAt(tree, p))

UserCopy ==
    /\ UserStep
    /\ \E p \in CardFiles(tree), first \in BOOLEAN :
         tree' = Place(tree, <<NewDir, FileName(p)>>, TextAt(tree, p), first)

UserDelete ==
    /\ UserStep
    /\ \E p \in CardFiles(tree) : tree' = Remove(tree, p)

\* The cards the user may write by hand: the directory and the body.
Drafts ==
    { <<Todo, TitleB>>, <<Todo, Heading(TitleB) \o <<"\n", "\n">> \o TextY>>, <<NewDir, TitleB>> }

UserCreate ==
    /\ UserStep
    /\ \E draft \in Drafts :
         /\ <<draft[1], NewFileName>> \notin Paths(tree)
         /\ tree' = Write(tree, <<draft[1], NewFileName>>, Authored(IdA1, TitleB, draft[2]))

(***************************************************************************)
(* pusher.py: push_board, phase by phase                                   *)
(***************************************************************************)

\* push_board is entered with its flags; nothing is left from an earlier run.
StartPush ==
    /\ pc = "idle"
    /\ pushes < MaxPushes
    /\ \E d \in BOOLEAN, f \in BOOLEAN : dry_run' = d /\ force' = f
    /\ pc' = "detect"
    /\ pushes' = pushes + 1
    /\ fs_cards' = <<>> /\ server_cards' = <<>> /\ loaded' = 0
    /\ changes' = <<>>
    /\ answer' = Unasked
    /\ idx' = 0 /\ success_count' = 0
    /\ result' = "none"
    /\ calls' = <<>>
    /\ UNCHANGED <<remote, tree, clean, edits, faults, hostVars, callVars>>

\* detect_changes with the remote load reading upto lists.
DetectUpto(upto) ==
    /\ pc = "detect"
    /\ fs_cards' = load_filesystem_cards(tree)
    /\ server_cards' = load_server_cards(remote, upto)
    /\ loaded' = upto
    /\ changes' = detect_card_changes(fs_cards', server_cards')
    /\ pc' = "preview"
    /\ UNCHANGED <<remote, tree, dry_run, force, answer, idx, success_count, result,
                   calls, clean, edits, pushes>>

\* detect_changes: both snapshots are loaded and compared.
Detect ==
    /\ DetectUpto(Len(Lists))
    /\ faults' = faults /\ UNCHANGED <<hostVars, callVars>>

\* The same with list_boards, get_lists or a get_cards raising.
DetectFault ==
    /\ faults < MaxFaults
    /\ faults' = faults + 1 /\ UNCHANGED <<hostVars, callVars>>
    /\ \E upto \in 0..(Len(Lists) - 1) : DetectUpto(upto)

\* A preview that goes on to the prompt or the apply phase with no changes.
PreviewGoesOn ==
    /\ pc = "preview"
    /\ result' = result
    /\ pc' = IF ~force /\ ~dry_run THEN "confirm" ELSE "apply"
    /\ UNCHANGED <<remote, tree, dry_run, force, fs_cards, server_cards, loaded, changes,
                   answer, idx, success_count, calls, clean, edits, pushes, faults, hostVars, callVars>>

\* show_changes_preview and the branch of push_board after it.
Preview ==
    /\ pc = "preview"
    /\ IF changes = <<>>
       THEN result' = "success" /\ pc' = "report"
       ELSE /\ result' = result
            /\ pc' = IF ~force /\ ~dry_run THEN "confirm" ELSE "apply"
    /\ UNCHANGED <<remote, tree, dry_run, force, fs_cards, server_cards, loaded, changes,
                   answer, idx, success_count, calls, clean, edits, pushes, faults, hostVars, callVars>>

\* A prompt that goes on to apply whatever is typed.
ConfirmAnyAnswer ==
    /\ pc = "confirm"
    /\ \E typed \in Answers : answer' = typed
    /\ result' = result /\ pc' = "apply"
    /\ UNCHANGED <<remote, tree, dry_run, force, fs_cards, server_cards, loaded, changes,
                   idx, success_count, calls, clean, edits, pushes, faults, hostVars, callVars>>

\* The prompt: anything but y or Y cancels the push.
Confirm ==
    /\ pc = "confirm"
    /\ \E typed \in Answers :
         /\ answer' = typed
         /\ IF Lower(typed) # <<"y">>
            THEN result' = "failure" /\ pc' = "report"
            ELSE result' = result /\ pc' = "apply"
    /\ UNCHANGED <<remote, tree, dry_run, force, fs_cards, server_cards, loaded, changes,
                   idx, success_count, calls, clean, edits, pushes, faults, hostVars, callVars>>

\* An apply phase that does not look at dry_run.
ApplyBeginAlways ==
    /\ pc = "apply"
    /\ IF changes = <<>>
       THEN result' = "success" /\ pc' = "report" /\ idx' = idx
       ELSE result' = result /\ pc' = "applying" /\ idx' = 1
    /\ success_count' = 0
    /\ UNCHANGED <<remote, tree, dry_run, force, fs_cards, server_cards, loaded, changes,
                   answer, calls, clean, edits, pushes, faults, hostVars, callVars>>

\* apply_changes up to its loop: the early returns, then the board and its
\* lists are fetched.
ApplyBegin ==
    /\ pc = "apply"
    /\ IF changes = <<>> \/ dry_run
       THEN result' = "success" /\ pc' = "report" /\ idx' = idx
       ELSE result' = result /\ pc' = "applying" /\ idx' = 1
    /\ success_count' = 0
    /\ UNCHANGED <<remote, tree, dry_run, force, fs_cards, server_cards, loaded, changes,
                   answer, calls, clean, edits, pushes, faults, hostVars, callVars>>

\* The same with list_boards or get_lists raising, or the board not found.
ApplyBeginFault ==
    /\ pc = "apply"
    /\ changes # <<>> /\ ~dry_run
    /\ faults < MaxFaults
    /\ faults' = faults + 1 /\ UNCHANGED <<hostVars, callVars>>
    /\ result' = "failure" /\ pc' = "report"
    /\ UNCHANGED <<remote, tree, dry_run, force, fs_cards, server_cards, loaded, changes,
                   answer, idx, success_count, calls, clean, edits, pushes>>

(***************************************************************************)
(* The remote client's mutating calls                                      *)
(***************************************************************************)

\* The id the service gives the k-th card created through the client.
NewId(board) ==
    <<"n">> \o IntStr(1 + Cardinality({i \in 1..Len(board) : board[i].id[1] = "n"}))

\* target_list.add_card(title, swimlane, description)
add_card(board, lid, title, description) ==
    Append(board, [id |-> NewId(board), title |-> title, description |-> description,
                   list |-> lid, archived |-> FALSE, card_number |-> 0])

\* card.edit(title=..., description=...); a title of None leaves the title.
edit_content(board, id, title, description) ==
    [i \in 1..Len(board) |->
        IF board[i].id = id
        THEN [board[i] EXCEPT !.title = IF title.t = "none" THEN @ ELSE PyStr(title),
                              !.description = description]
        ELSE board[i]]

\* card.edit(new_list=target_list)
edit_list(board, id, lid) ==
    [i \in 1..Len(board) |-> IF board[i].id = id THEN [board[i] EXCEPT !.list = lid] ELSE board[i]]

\* card.archive()
archive(board, id) ==
    [i \in 1..Len(board) |-> IF board[i].id = id THEN [board[i] EXCEPT !.archived = TRUE] ELSE board[i]]

(***************************************************************************)
(* pusher.py: applying one change                                          *)
(***************************************************************************)

\* list_name_to_obj: sanitized title -> list; a later list of the same
\* sanitized title replaces an earlier one.
HasList(name) == \E i \in 1..Len(Lists) : StrVal(sanitize_filename(Lists[i][2])) = name

ListByName(name) ==
    Lists[CHOOSE i \in 1..Len(Lists) :
            /\ StrVal(sanitize_filename(Lists[i][2])) = name
            /\ \A j \in (i + 1)..Len(Lists) : StrVal(sanitize_filename(Lists[j][2])) # name][1]

\* The cards _find_card_by_id scans: every list's get_cards, lists in order.
RECURSIVE Scan(_, _)
Scan(board, l) ==
    IF l > Len(Lists) THEN <<>> ELSE get_cards(board, Lists[l][1]) \o Scan(board, l + 1)

\* _find_card_by_id: whether a card is found; a card id that is falsy, or a
\* scan that raises, finds nothing.
Found(board, card_id, fault) ==
    /\ Truthy(card_id)
    /\ fault # "scan"
    /\ \E i \in 1..Len(Scan(board, 1)) : StrVal(Scan(board, 1)[i].id) = card_id

\* The outcome of applying one change: the board afterwards, whether the
\* change counts as applied, and the mutating call made, if any.  fault says
\* which remote call raises: "scan" a read (the id scan, the swimlane
\* list), "call" the mutating call, "none" neither.
Outcome(board, ok, call) == [board |-> board, ok |-> ok, call |-> call]

\* A create that falls back to the first list when the name has no list.
apply_create_default(board, change, fault) ==
    IF fault # "none" \/ change.new_data.title.t # "str" THEN Outcome(board, FALSE, <<>>)
    ELSE Outcome(add_card(board,
                          IF HasList(change.new_data.list_name)
                          THEN ListByName(change.new_data.list_name) ELSE Lists[1][1],
                          change.new_data.title.v, change.new_data.description.v),
                 TRUE, << <<"add_card", NewId(board)>> >>)

apply_create(board, change, fault) ==
    IF ~HasList(change.new_data.list_name) THEN Outcome(board, FALSE, <<>>)
    ELSE IF fault # "none" \/ change.new_data.title.t # "str" THEN Outcome(board, FALSE, <<>>)
    ELSE Outcome(add_card(board, ListByName(change.new_data.list_name),
                          change.new_data.title.v, change.new_data.description.v),
                 TRUE, << <<"add_card", NewId(board)>> >>)

\* An update that also puts the card into the first list of the board.
apply_update_relist(board, change, fault) ==
    IF ~Found(board, change.card_id, fault) THEN Outcome(board, FALSE, <<>>)
    ELSE IF fault = "call" THEN Outcome(board, FALSE, <<>>)
    ELSE Outcome(edit_list(edit_content(board, change.card_id.v, change.new_data.title,
                                        change.new_data.description.v),
                           change.card_id.v, Lists[1][1]),
                 TRUE, << <<"edit", change.card_id.v>> >>)

apply_update(board, change, fault) ==
    IF ~Found(board, change.card_id, fault) THEN Outcome(board, FALSE, <<>>)
    ELSE IF fault = "call" THEN Outcome(board, FALSE, <<>>)
    ELSE Outcome(edit_content(board, change.card_id.v, change.new_data.title,
                              change.new_data.description.v),
                 TRUE, << <<"edit", change.card_id.v>> >>)

apply_move(board, change, fault) ==
    IF ~Found(board, change.card_id, fault) THEN Outcome(board, FALSE, <<>>)
    ELSE IF ~HasList(change.new_data.list_name) THEN Outcome(board, FALSE, <<>>)
    ELSE IF fault = "call" THEN Outcome(board, FALSE, <<>>)
    ELSE Outcome(edit_list(board, change.card_id.v, ListByName(change.new_data.list_name)),
                 TRUE, << <<"move", change.card_id.v>> >>)

\* A delete that fails when the card is not found, as update and move do.
apply_delete_found(board, change, fault) ==
    IF ~Found(board, change.card_id, fault) THEN Outcome(board, FALSE, <<>>)
    ELSE IF fault = "call" THEN Outcome(board, FALSE, <<>>)
    ELSE Outcome(archive(board, change.card_id.v), TRUE, << <<"archive", change.card_id.v>> >>)

apply_delete(board, change, fault) ==
    IF ~Found(board, change.card_id, fault) THEN Outcome(board, TRUE, <<>>)
    ELSE IF fault = "call" THEN Outcome(board, FALSE, <<>>)
    ELSE Outcome(archive(board, change.card_id.v), TRUE, << <<"archive", change.card_id.v>> >>)

apply_one(board, change, fault) ==
    CASE change.type = "create" -> apply_create(board, change, fault)
      [] change.type = "update" -> apply_update(board, change, fault)
      [] change.type = "move" -> apply_move(board, change, fault)
      [] change.type = "delete" -> apply_delete(board, change, fault)
      [] OTHER -> Outcome(board, FALSE, <<>>)

\* A loop that stops at the first change that fails.
ApplyWithStop(fault) ==
    LET out == apply_one(remote, changes[idx], fault) IN
    /\ pc = "applying"
    /\ idx <= Len(changes)
    /\ remote' = out.board
    /\ success_count' = IF out.ok THEN success_count + 1 ELSE success_count
    /\ calls' = calls \o out.call
    /\ idx' = IF out.ok THEN idx + 1 ELSE Len(changes) + 1
    /\ UNCHANGED <<tree, pc, dry_run, force, fs_cards, server_cards, loaded, changes,
                   answer, result, clean, edits, pushes>>

\* One turn of the loop of apply_changes, under the given fault.
ApplyWith(fault) ==
    LET out == apply_one(remote, changes[idx], fault) IN
    /\ pc = "applying"
    /\ idx <= Len(changes)
    /\ remote' = out.board
    /\ success_count' = IF out.ok THEN success_count + 1 ELSE success_count
    /\ calls' = calls \o out.call
    /\ idx' = idx + 1
    /\ UNCHANGED <<tree, pc, dry_run, force, fs_cards, server_cards, loaded, changes,
                   answer, result, clean, edits, pushes>>

\* One turn of the loop with every remote call succeeding.
ApplyStep == ApplyWith("none") /\ faults' = faults /\ UNCHANGED <<hostVars, callVars>>

\* One turn of the loop with a remote call raising.
ApplyStepFault ==
    /\ faults < MaxFaults
    /\ faults' = faults + 1 /\ UNCHANGED <<hostVars, callVars>>
    /\ \E fault \in {"scan", "call"} : ApplyWith(fault)

\* After the loop: the count is reported and compared with the total.
ApplyEnd ==
    /\ pc = "applying"
    /\ idx > Len(changes)
    /\ result' = IF success_count = Len(changes) THEN "success" ELSE "failure"
    /\ pc' = "report"
    /\ UNCHANGED <<remote, tree, dry_run, force, fs_cards, server_cards, loaded, changes,
                   answer, idx, success_count, calls, clean, edits, pushes, faults, hostVars, callVars>>

\* push_board returns.  The run was clean if it went through the apply loop
\* with complete snapshots and every change applied.
Return ==
    /\ pc = "report"
    /\ pc' = "idle"
    /\ clean' = (/\ result = "success"
                 /\ ~dry_run
                 /\ loaded = Len(Lists)
                 /\ success_count = Len(changes))
    /\ NoRun
    /\ UNCHANGED <<remote, tree, edits, pushes, faults, hostVars, callVars>>

\* The system with every remote call succeeding.
Next ==
    \/ CloneBoard
    \/ UserEdit \/ UserMove \/ UserCopy \/ UserDelete \/ UserCreate
    \/ StartPush \/ Detect \/ Preview \/ Confirm
    \/ ApplyBegin \/ ApplyStep \/ ApplyEnd \/ Return

Spec == Init /\ [][Next]_vars

\* A push entered with force and without dry_run, the first after the clone.
StartPushForced ==
    /\ pushes = 0
    /\ StartPush
    /\ force' /\ ~dry_run'

\* Another client archives a card of the board while the changes are applied.
RemoteArchive ==
    /\ pc = "applying"
    /\ idx <= Len(changes)
    /\ faults < MaxFaults
    /\ faults' = faults + 1 /\ UNCHANGED <<hostVars, callVars>>
    /\ \E i \in 1..Len(remote) :
         /\ ~remote[i].archived
         /\ remote' = archive(remote, remote[i].id)
    /\ UNCHANGED <<tree, pc, runVars, clean, edits, pushes>>

\* The system with remote calls that may raise and a second client: one
\* forced push of the edited clone.
NextFaults ==
    \/ CloneBoard
    \/ UserEdit \/ UserMove \/ UserCopy \/ UserDelete \/ UserCreate
    \/ StartPushForced \/ Detect \/ DetectFault \/ Preview
    \/ ApplyBegin \/ ApplyBeginFault \/ RemoteArchive
    \/ ApplyStep \/ ApplyStepFault \/ ApplyEnd \/ Return

SpecFaults == Init /\ [][NextFaults]_vars

(***************************************************************************)
(* push.py: the status and diff commands                                   *)
(***************************************************************************)

\* push_status is entered; push_diff calls it.
StartStatus ==
    /\ pc = "idle"
    /\ pushes = 0
    /\ pc' = "status"
    /\ pushes' = pushes + 1
    /\ UNCHANGED <<remote, tree, runVars, clean, edits, faults, hostVars, callVars>>

\* pusher.detect_changes as push_status calls it.
StatusDetect ==
    /\ pc = "status"
    /\ fs_cards' = load_filesystem_cards(tree)
    /\ server_cards' = load_server_cards(remote, Len(Lists))
    /\ loaded' = Len(Lists)
    /\ changes' = detect_card_changes(fs_cards', server_cards')
    /\ pc' = "status_preview"
    /\ UNCHANGED <<remote, tree, dry_run, force, answer, idx, success_count, result,
                   calls, clean, edits, pushes, faults, hostVars, callVars>>

\* show_changes_preview and the hint; push_status returns nothing.
StatusPreview ==
    /\ pc = "status_preview"
    /\ pc' = "idle"
    /\ NoRun
    /\ UNCHANGED <<remote, tree, clean, edits, pushes, faults, hostVars, callVars>>

\* push_board invoked once, with any flags.
StartPushOnce == pushes = 0 /\ StartPush

\* One invocation of push board, push status or push diff on the edited
\* clone, every remote call succeeding.
NextPhases ==
    \/ CloneBoard
    \/ UserEdit \/ UserMove \/ UserCopy \/ UserDelete \/ UserCreate
    \/ StartPushOnce \/ Detect \/ Preview \/ Confirm
    \/ ApplyBegin \/ ApplyStep \/ ApplyEnd \/ Return
    \/ StartStatus \/ StatusDetect \/ StatusPreview

\* The steps of a command that work on the card files or call the service,
\* each with the condition under which it can be taken.
Working ==
    \/ Detect \/ StatusDetect \/ ApplyStep

CanWork ==
    \/ pc \in {"detect", "status"}
    \/ pc = "applying" /\ idx <= Len(changes)

\* A command that was started runs on: the interpreter takes the next
\* statement, every call returns and the user answers the prompt.  The
\* fairness of Working is weak fairness with its enabling condition CanWork
\* written out.
Running ==
    /\ WF_vars(Preview) /\ WF_vars(Confirm) /\ WF_vars(ApplyBegin)
    /\ WF_vars(ApplyEnd) /\ WF_vars(StatusPreview)
    /\ ([]<>(~CanWork) \/ []<><<Working>>_vars)

SpecPhases == Init /\ [][NextPhases]_vars /\ Running

(***************************************************************************)
(* cloner.py: clone_host, the clone of a host with its boards              *)
(***************************************************************************)

\* Calls and file writes that may raise in one clone pass.
MaxCloneFaults == 1

HostAt == <<"h">>

\* The users of the host and the labels of its boards, as the service
\* returns them.
Users == << [id |-> "u1", username |-> "ann"], [id |-> "u2", username |-> "bob"] >>

HostCard(id, title, label_ids, members, assignees) ==
    [id |-> id, title |-> title, label_ids |-> label_ids, members |-> members,
     assignees |-> assignees]

\* Two boards.  The title of the first holds a digit that is no index, the
\* title of the second holds the id of the first in other case.  Card c2
\* carries a label and a member the service lists nowhere; the second board
\* has no labels, though its card carries one.
Board1 ==
    [id |-> <<"b", "1">>, title |-> <<"A", "2">>,
     labels |-> << [id |-> "lb1", name |-> "bug"] >>,
     lists |-> << [id |-> <<"l", "1">>, title |-> Todo,
                   cards |-> << HostCard(<<"c", "1">>, TitleA, <<"lb1">>, <<"u1">>, <<>>),
                                HostCard(<<"c", "2">>, TitleB, <<"lb1", "lb9">>, <<"u9">>, <<"u2">>) >>],
                  [id |-> <<"l", "2">>, title |-> OnHold,
                   cards |-> << HostCard(<<"c", "3">>, TitleA, <<>>, <<>>, <<>>) >>] >>]

Board2 ==
    [id |-> <<"b", "2">>, title |-> <<"T", "a", "B", "1">>,
     labels |-> <<>>,
     lists |-> << [id |-> <<"l", "3">>, title |-> Todo,
                   cards |-> << HostCard(<<"c", "4">>, TitleB, <<"lb1">>, <<"u1">>, <<"u1">>) >>] >>]

Hosts == { <<>>, <<Board1, Board2>> }

\* The filters given on the command line: indexes in range, a number out of
\* range, the ids of the boards, parts of titles, a word no board carries and
\* a pattern that does not compile.
Filters ==
    { NoFilter, <<"0">>, <<"1">>, <<"2">>, <<"b", "1">>, <<"b", "2">>, <<"t", "a">>,
      <<"z", "z">>, <<"(">> }

BoardIds == { <<"b", "1">>, <<"b", "2">> }
ListIdsOfHost == { <<"l", "1">>, <<"l", "2">>, <<"l", "3">> }
CardIds == { <<"c", "1">>, <<"c", "2">>, <<"c", "3">>, <<"c", "4">> }

\* What may raise: a call of the service or a write of a file, with the
\* object it is made for.
RemoteCalls ==
    ({"connect", "list_boards", "get_users"} \X {HostAt})
    \cup ({"list_swimlanes", "get_labels", "list_custom_fields", "list_integrations",
           "get_members", "get_lists"} \X BoardIds)
    \cup ({"get_cards"} \X ListIdsOfHost)
    \cup ({"get_checklists", "get_comments"} \X CardIds)

FileWrites ==
    ({"board_config"} \X BoardIds) \cup ({"list_config"} \X ListIdsOfHost)
    \cup ({"card_file"} \X CardIds)

FailurePoints == RemoteCalls \cup FileWrites

Fails(call, at) == <<call, at>> \in failing

\* The sets of at most n failure points.
RECURSIVE FaultSets(_)
FaultSets(n) ==
    IF n = 0 THEN {{}}
    ELSE FaultSets(n - 1) \cup {s \cup {p} : s \in FaultSets(n - 1), p \in FailurePoints}

\* int(s) for a string of digits.
RECURSIVE IntOf(_)
IntOf(s) ==
    IF s = <<>> THEN 0
    ELSE 10 * IntOf(SubSeq(s, 1, Len(s) - 1))
         + (CHOOSE d \in 0..9 : DigitOf[d + 1] = s[Len(s)])

\* The letters of the model's titles under re.IGNORECASE.
FoldChar(c) == IF c = "A" THEN "a" ELSE IF c = "B" THEN "b" ELSE IF c = "T" THEN "t" ELSE c

Fold(s) == [i \in 1..Len(s) |-> FoldChar(s[i])]

\* re.search(pattern, title, re.IGNORECASE) for the model's patterns: letters
\* and digits match themselves in either case, an open group does not compile.
re_search(pattern, title) ==
    IF "(" \in {pattern[i] : i \in 1..Len(pattern)} THEN "error"
    ELSE IF Contains(Fold(title), Fold(pattern)) THEN "match" ELSE "none"

\* The loop of the except ValueError branch: id or pattern, board by board.
RECURSIVE MatchLoop(_, _, _, _)
MatchLoop(all_boards, filter, i, acc) ==
    IF i > Len(all_boards) THEN [raised |-> FALSE, boards |-> acc]
    ELSE IF all_boards[i].id = filter THEN MatchLoop(all_boards, filter, i + 1, Append(acc, all_boards[i]))
    ELSE LET m == re_search(filter, all_boards[i].title) IN
         IF m = "error" THEN [raised |-> TRUE, boards |-> <<>>]
         ELSE MatchLoop(all_boards, filter, i + 1,
                        IF m = "match" THEN Append(acc, all_boards[i]) ELSE acc)

\* The filter of clone_host: filtered_boards, or the error of the pattern.
filter_boards(all_boards, filter) ==
    IF IsDigits(filter)
    THEN [raised |-> FALSE,
          boards |-> IF 0 <= IntOf(filter) /\ IntOf(filter) < Len(all_boards)
                     THEN <<all_boards[IntOf(filter) + 1]>> ELSE <<>>]
    ELSE MatchLoop(all_boards, filter, 1, <<>>)

\* One written file: which file, the object it belongs to, what it holds.
Entry(file, at, data) == [file |-> file, at |-> at, data |-> data]

\* read_json_file: what the file written last holds, None when the pass has
\* not written the file (the output directory is new).
NoFile == [found |-> FALSE, data |-> <<>>]

read_json_file(log, file, at) ==
    LET hits == {i \in 1..Len(log) : log[i].file = file /\ log[i].at = at} IN
    IF hits = {} THEN NoFile
    ELSE [found |-> TRUE, data |-> log[CHOOSE i \in hits : \A j \in hits : j <= i].data]

\* The names a cache gives for ids, in the order of the ids; an id the cache
\* does not hold gives none.  No cache, or an empty one, gives no names.
RECURSIVE NamesOf(_, _, _)
NamesOf(ids, cache, key) ==
    IF ids = <<>> THEN <<>>
    ELSE LET hits == {i \in 1..Len(cache) : cache[i].id = Head(ids)} IN
         (IF hits = {} THEN <<>>
          ELSE <<cache[CHOOSE i \in hits : \A j \in hits : i <= j][key]>>)
         \o NamesOf(Tail(ids), cache, key)

Resolve(ids, cache, key) ==
    IF ids = <<>> \/ ~cache.found \/ cache.data = <<>> THEN <<>>
    ELSE NamesOf(ids, cache.data, key)

\* WekanCardFS.save_content: the labels, members and assignees keys of the
\* preamble (a key is left out when it has no names), the sections of the
\* body that come from calls, and the caches the write has read.
card_file(log, board, card) ==
    [board |-> board.id,
     labels |-> Resolve(card.label_ids, read_json_file(log, "labels.json", board.id), "name"),
     members |-> Resolve(card.members, read_json_file(log, "users.json", HostAt), "username"),
     assignees |-> Resolve(card.assignees, read_json_file(log, "users.json", HostAt), "username"),
     checklists |-> ~Fails("get_checklists", card.id),
     comments |-> ~Fails("get_comments", card.id),
     reads |-> (IF card.label_ids # <<>> THEN {<<"labels.json", board.id>>} ELSE {})
               \cup (IF card.members # <<>> \/ card.assignees # <<>>
                        \/ ~Fails("get_comments", card.id)
                     THEN {<<"users.json", HostAt>>} ELSE {})]

\* _clone_card: the card's file is written, or the write raises.
clone_card(log, board, card) ==
    IF Fails("card_file", card.id) THEN [raised |-> TRUE, log |-> log]
    ELSE [raised |-> FALSE, log |-> Append(log, Entry("card", card.id, card_file(log, board, card)))]

\* The loop of _clone_list over the cards: an error leaves the loop.
RECURSIVE CloneCardsOf(_, _, _, _)
CloneCardsOf(log, board, cards, i) ==
    IF i > Len(cards) THEN log
    ELSE LET r == clone_card(log, board, cards[i]) IN
         IF r.raised THEN r.log ELSE CloneCardsOf(r.log, board, cards, i + 1)

\* _clone_list: the list's metadata is written outside the try; get_cards and
\* the cards are inside it, and their error is printed and dropped.
clone_list(log, board, list) ==
    IF Fails("list_config", list.id) THEN [raised |-> TRUE, log |-> log]
    ELSE LET l1 == Append(log, Entry("list_config", list.id, <<>>)) IN
         [raised |-> FALSE,
          log |-> IF Fails("get_cards", list.id) THEN l1
                  ELSE CloneCardsOf(l1, board, list.cards, 1)]

\* The loop of _clone_board over the lists: an error leaves the loop.
RECURSIVE CloneListsOf(_, _, _, _)
CloneListsOf(log, board, lists, i) ==
    IF i > Len(lists) THEN log
    ELSE LET r == clone_list(log, board, lists[i]) IN
         IF r.raised THEN r.log ELSE CloneListsOf(r.log, board, lists, i + 1)

\* WekanBoardFS.save_metadata: the descriptor, then the four caches, each
\* written empty when its call raises.
save_metadata(log, board) ==
    IF Fails("board_config", board.id) THEN [raised |-> TRUE, log |-> log]
    ELSE [raised |-> FALSE,
          log |-> log \o
            << Entry("board_config", board.id,
                     IF Fails("list_swimlanes", board.id) THEN <<"TBD">> ELSE <<"swimlanes">>),
               Entry("labels.json", board.id,
                     IF Fails("get_labels", board.id) THEN <<>> ELSE board.labels),
               Entry("custom-fields.json", board.id, <<>>),
               Entry("integrations.json", board.id, <<>>),
               Entry("members.json", board.id, <<>>) >>]

\* A clone of a board that writes the board's metadata after its lists.
clone_board_lists_first(log, board) ==
    save_metadata(IF Fails("get_lists", board.id) THEN log
                  ELSE CloneListsOf(log, board, board.lists, 1), board)

\* _clone_board: save_metadata is outside the try; get_lists and the lists
\* are inside it, and their error is printed and dropped.
clone_board(log, board) ==
    LET m == save_metadata(log, board) IN
    IF m.raised THEN m
    ELSE [raised |-> FALSE,
          log |-> IF Fails("get_lists", board.id) THEN m.log
                  ELSE CloneListsOf(m.log, board, board.lists, 1)]

\* WekanHost.save_config: the descriptor, then the users cache unless
\* get_users raises.
save_config(log) ==
    LET l1 == Append(log, Entry("host_config", HostAt, <<>>)) IN
    IF Fails("get_users", HostAt) THEN l1
    ELSE Append(l1, Entry("users.json", HostAt, Users))

\* The host variables before clone_host is called: what the service holds,
\* the filter, and what will fail.
InitHost ==
    /\ remote = <<>> /\ tree = <<>> /\ pc = "idle"
    /\ dry_run = FALSE /\ force = FALSE
    /\ fs_cards = <<>> /\ server_cards = <<>> /\ loaded = 0
    /\ changes = <<>> /\ answer = Unasked
    /\ idx = 0 /\ success_count = 0
    /\ result = "none" /\ calls = <<>> /\ clean = FALSE
    /\ edits = 0 /\ pushes = 0 /\ faults = 0
    /\ NoCall
    /\ host_boards \in Hosts
    /\ board_filter \in Filters
    /\ failing \in FaultSets(MaxCloneFaults)
    /\ cpc = "start"
    /\ selected = <<>>
    /\ bidx = 0
    /\ written = <<>>

pushVars == <<remote, tree, pc, runVars, clean, edits, pushes, faults>>

\* A connect whose error is dropped like that of get_users.
ConnectUnchecked ==
    /\ cpc = "start"
    /\ cpc' = "connected" /\ written' = save_config(written)
    /\ UNCHANGED <<pushVars, callVars, host_boards, board_filter, failing, selected, bidx>>

\* WekanClient(...) and host.save_config(): a connect that raises leaves
\* clone_host before anything is written.
Connect ==
    /\ cpc = "start"
    /\ IF Fails("connect", HostAt)
       THEN cpc' = "raised" /\ written' = written
       ELSE cpc' = "connected" /\ written' = save_config(written)
    /\ UNCHANGED <<pushVars, callVars, host_boards, board_filter, failing, selected, bidx>>

\* A filter step for which an empty selection is an error like any other.
ListBoardsStrict ==
    /\ cpc = "connected"
    /\ IF Fails("list_boards", HostAt)
       THEN cpc' = "raised" /\ selected' = <<>>
       ELSE IF board_filter = NoFilter
       THEN cpc' = "cloning" /\ selected' = host_boards
       ELSE LET f == filter_boards(host_boards, board_filter) IN
            /\ selected' = f.boards
            /\ cpc' = IF f.raised \/ f.boards = <<>> THEN "raised" ELSE "cloning"
    /\ bidx' = 1
    /\ UNCHANGED <<pushVars, callVars, host_boards, board_filter, failing, written>>

\* list_boards and the filter: an error is printed and raised again, an empty
\* selection returns the host.
ListBoards ==
    /\ cpc = "connected"
    /\ IF Fails("list_boards", HostAt)
       THEN cpc' = "raised" /\ selected' = <<>>
       ELSE IF board_filter = NoFilter
       THEN cpc' = "cloning" /\ selected' = host_boards
       ELSE LET f == filter_boards(host_boards, board_filter) IN
            /\ selected' = f.boards
            /\ cpc' = IF f.raised THEN "raised"
                      ELSE IF f.boards = <<>> THEN "returned" ELSE "cloning"
    /\ bidx' = 1
    /\ UNCHANGED <<pushVars, callVars, host_boards, board_filter, failing, written>>

\* One turn of the loop over the boards.
CloneNextBoard ==
    /\ cpc = "cloning"
    /\ bidx <= Len(selected)
    /\ LET r == clone_board(written, selected[bidx]) IN
         /\ written' = r.log
         /\ cpc' = IF r.raised THEN "raised" ELSE "cloning"
    /\ bidx' = bidx + 1
    /\ UNCHANGED <<pushVars, callVars, host_boards, board_filter, failing, selected>>

\* The loop is over: clone_host returns the host.
CloneReturn ==
    /\ cpc = "cloning"
    /\ bidx > Len(selected)
    /\ cpc' = "returned"
    /\ UNCHANGED <<pushVars, callVars, host_boards, board_filter, failing, selected, bidx, written>>

NextHost == Connect \/ ListBoards \/ CloneNextBoard \/ CloneReturn

SpecHost == InitHost /\ [][NextHost]_vars

(***************************************************************************)
(* cloner.py: a clone into the output directory of an earlier clone        *)
(***************************************************************************)

\* _clone_board into the directory as it stands: every file of the pass is
\* written over the file of that path or added; nothing is removed.
CloneAgain ==
    /\ pc = "idle"
    /\ tree' = CloneLists(tree, remote, 1)
    /\ clean' = FALSE
    /\ UNCHANGED <<remote, pc, runVars, edits, pushes, faults, hostVars, callVars>>

\* Between two clones a user of the service archives a card, gives it the
\* other title or moves it to another list.
RemoteEdit ==
    /\ pc = "idle"
    /\ tree # <<>>
    /\ edits < MaxEdits
    /\ edits' = edits + 1
    /\ \E i \in 1..Len(remote) :
         /\ ~remote[i].archived
         /\ \/ remote' = archive(remote, remote[i].id)
            \/ \E t \in Titles \ {remote[i].title} : remote' = [remote EXCEPT ![i].title = t]
            \/ \E l \in ListIds \ {remote[i].list} : remote' = edit_list(remote, remote[i].id, l)
    /\ clean' = FALSE
    /\ UNCHANGED <<tree, pc, runVars, pushes, faults, hostVars, callVars>>

\* Clones of a board that changes on the service, and a status run on the
\* tree; no file of the tree is edited.
NextReclone ==
    \/ CloneAgain \/ RemoteEdit
    \/ StartStatus \/ StatusDetect \/ StatusPreview

SpecReclone == Init /\ [][NextReclone]_vars

(***************************************************************************)
(* cloner.py: clones of boards whose card titles exercise the file names   *)
(***************************************************************************)

\* c * n for a character c
Rep(c, n) == [i \in 1..n |-> c]

\* Endings that put a trimmed or a replaced character next to the cut.
Tails == {<<>>, <<".">>, <<"_", "b">>, <<".", "b">>, <<"?", "b">>}

\* Titles as long as the truncation length, a little shorter and a little
\* longer.
LongNames ==
    {Rep("a", n) \o t : n \in (MaxNameLen - 5)..(MaxNameLen + 1), t \in Tails}

CardTitles ==
    {TitleA, <<"a", " ", "b">>, <<"a", ":", "b">>, <<"?">>, <<".", "a", "_">>} \cup LongNames

\* No number (0), and numbers of one to four digits.
CardNumbers == {0, 7, 42, 123, 1234}

NameBoards ==
    {<<Card(IdC1, t, TextX, "L1", n)>> : t \in CardTitles, n \in CardNumbers}

InitNames ==
    /\ remote \in NameBoards
    /\ tree = <<>>
    /\ pc = "idle"
    /\ dry_run = FALSE /\ force = FALSE
    /\ fs_cards = <<>> /\ server_cards = <<>> /\ loaded = 0
    /\ changes = <<>>
    /\ answer = Unasked
    /\ idx = 0 /\ success_count = 0
    /\ result = "none"
    /\ calls = <<>>
    /\ clean = FALSE
    /\ edits = 0 /\ pushes = 0 /\ faults = 0
    /\ NoHost
    /\ NoCall

\* A clone of the board and a status run on the tree it wrote.
NextNames == CloneBoard \/ StartStatus \/ StatusDetect \/ StatusPreview

SpecNames == InitNames /\ [][NextNames]_vars

(***************************************************************************)
(* pusher.py: the reader on a tree with files in the reserved places       *)
(***************************************************************************)

WekanBoardDir == <<".", "w", "e", "k", "a", "n", "-", "b", "o", "a", "r", "d">>

WekanHostDir == <<".", "w", "e", "k", "a", "n", "-", "h", "o", "s", "t">>

\* The metadata directories of the host, board and list directories.
ReservedDirs == {WekanHostDir, WekanBoardDir, WekanListDir}

\* Where a file may be put aside: the metadata directory of its list or of
\* the board, an export-dump name or a hidden name next to it.
Stashes(p) ==
    { <<ParentName(p), WekanListDir, FileName(p)>>,
      <<WekanBoardDir, FileName(p)>>,
      <<ParentName(p), ExportBoard \o FileName(p)>>,
      <<ParentName(p), <<".">> \o FileName(p)>> }

\* The user puts a copy of a card file aside; the walk may meet it before or
\* after the other files.
UserStash ==
    /\ UserStep
    /\ \E p \in CardFiles(tree), first \in BOOLEAN : \E q \in Stashes(p) :
         tree' = Place(tree, q, TextAt(tree, p), first)

\* The user moves a card file aside.
UserStashAway ==
    /\ UserStep
    /\ \E p \in CardFiles(tree) : \E q \in Stashes(p) :
         tree' = Write(Remove(tree, p), q, TextAt(tree, p))

\* A clone, one file put aside, and a status run on the tree.
NextStash ==
    \/ CloneBoard \/ UserStash \/ UserStashAway
    \/ StartStatus \/ StatusDetect \/ StatusPreview

SpecStash == Init /\ [][NextStash]_vars

(***************************************************************************)
(* utils.py, models.py: the functions called on their own                  *)
(***************************************************************************)

\* yaml.safe_load(text) raises yaml.YAMLError: the document is neither empty
\* nor a block mapping, and it is no block sequence ("- item" lines) and no
\* plain scalar (lines that start with no indicator and hold no "key: ").
YamlRaises(text) ==
    LET lines == SelectSeq(Split(text, <<"\n">>, -1), LAMBDA l : Strip(l, Whitespace) # <<>>)
        isItem(l) == StartsWith(l, <<"-", " ">>)
        isPlain(l) == YamlLine(l) = <<>> /\ l[1] \notin Indicators \cup Whitespace
    IN  /\ YamlLoad(text).kind = "other"
        /\ ~(\A i \in 1..Len(lines) : isItem(lines[i]))
        /\ ~(\A i \in 1..Len(lines) : isPlain(lines[i]))

\* A byte sequence that is no UTF-8 text, as one character of the content.
BadByte == "0xff"

\* read_markdown_file on a file that exists: the text; decoding raises
\* UnicodeDecodeError, which is no OSError and is not caught.
read_markdown_file(content) ==
    IF \E i \in 1..Len(content) : content[i] = BadByte
    THEN [raised |-> TRUE, text |-> <<>>]
    ELSE [raised |-> FALSE, text |-> content]

\* The empty mapping {} as a loaded document.
EmptyMap == [kind |-> "map", map |-> <<>>]

\* WekanCardFS.load_content on a card file with the given content: result
\* "none" for return None, "parsed" for the return inside the try block,
\* "fallback" for the last return, "raised" for an exception that leaves the
\* function.
load_content(content) ==
    LET file == read_markdown_file(content)
        parts == Split(file.text, MarkerLine, 2)
    IN  IF file.raised
        THEN [result |-> "raised", frontmatter |-> EmptyMap, body |-> <<>>]
        ELSE IF file.text = <<>>
        THEN [result |-> "none", frontmatter |-> EmptyMap, body |-> <<>>]
        ELSE IF StartsWith(file.text, MarkerLine) /\ Len(parts) >= 3 /\ ~YamlRaises(parts[2])
        THEN [result |-> "parsed", frontmatter |-> YamlLoad(parts[2]),
              body |-> Strip(parts[3], Whitespace)]
        ELSE [result |-> "fallback", frontmatter |-> EmptyMap, body |-> file.text]

\* Longest string of the exhaustive inputs of sanitize_filename.
MaxShort == 3

NameChars == {"a", " ", "\t", "_", ".", "?"}

\* Every string over NameChars up to MaxShort characters, and the long names.
NameInputs == UNION {[1..n -> NameChars] : n \in 0..MaxShort} \cup LongNames

\* The pieces card file contents are made of: with and without the opening
\* marker, a preamble that is empty, a mapping, a sequence, a scalar, a
\* mapping followed by a stray word or an unclosed bracket, with and without
\* the closing marker, and a body.
Openings == {MarkerLine, <<>>}

Preambles ==
    { <<>>,
      <<"i", "d", ":", " ", "c", "1", "\n">>,
      <<"-", " ", "a", "\n">>,
      <<"a", "b", "c", "\n">>,
      <<"i", "d", ":", " ", "c", "1", "\n", "b", "\n">>,
      <<"[", "a", "\n">> }

Closings == {MarkerLine, <<>>}

BodyTexts == {<<>>, <<"x", "\n">>, <<"\n", "x", " ", "\n">>}

Contents ==
    {o \o p \o c \o b : o \in Openings, p \in Preambles, c \in Closings, b \in BodyTexts}
    \cup {<<BadByte>>, MarkerLine \o <<"i", "d", ":", " ", BadByte, "\n">> \o MarkerLine}

(***************************************************************************)
(* utils.py: host_from_url, with urllib.parse.urlparse                     *)
(***************************************************************************)

Letters ==
    {"a", "b", "c", "d", "e", "f", "g", "h", "i", "j", "k", "l", "m",
     "n", "o", "p", "q", "r", "s", "t", "u", "v", "w", "x", "y", "z"}

\* urllib.parse.scheme_chars
SchemeChars == Letters \cup DigitChars \cup {"+", "-", "."}

\* The smallest member of a set of positions; last + 1 when there is none.
FirstOf(positions, last) ==
    IF positions = {} THEN last + 1
    ELSE CHOOSE k \in positions : \A j \in positions : k <= j

\* urlsplit: the position of the colon that ends the scheme, 0 without one.
SchemeEnd(url) ==
    LET i == Find(url, <<":">>, 1) IN
    IF i > 1 /\ url[1] \in Letters /\ \A k \in 1..(i - 1) : url[k] \in SchemeChars
    THEN i ELSE 0

\* urlparse(url): netloc is what follows "//" up to the first "/", "?" or
\* "#"; path is what follows up to the first "?" or "#".
urlparse(url) ==
    LET rest == Drop(url, SchemeEnd(url))
        hasNetloc == StartsWith(rest, <<"/", "/">>)
        after == Drop(rest, 2)
        cut == FirstOf({k \in 1..Len(after) : after[k] \in {"/", "?", "#"}}, Len(after))
        tail == IF hasNetloc THEN Drop(after, cut - 1) ELSE rest
        stop == FirstOf({k \in 1..Len(tail) : tail[k] \in {"?", "#"}}, Len(tail))
    IN  [netloc |-> IF hasNetloc THEN Take(after, cut - 1) ELSE <<>>,
         path |-> Take(tail, stop - 1)]

\* str.partition(sep): <<before, sep, after>>, <<s, "", "">> without sep.
Partition(s, sep) ==
    LET k == Find(s, sep, 1) IN
    IF k = 0 THEN <<s, <<>>, <<>> >>
    ELSE <<Take(s, k - 1), sep, Drop(s, k + Len(sep) - 1)>>

\* str.rpartition(sep)[2] for a separator of one character: what follows its
\* last occurrence, the whole string without one.
AfterLast(s, sep) ==
    LET hits == {k \in 1..Len(s) : s[k] = sep} IN
    IF hits = {} THEN s
    ELSE Drop(s, CHOOSE k \in hits : \A j \in hits : j <= k)

\* ParseResult._hostinfo[1]: the text of the port, empty for None.
PortText(netloc) ==
    LET hostinfo == AfterLast(netloc, "@")
        bracket == Partition(hostinfo, <<"[">>)
    IN  IF bracket[2] # <<>>
        THEN Partition(Partition(bracket[3], <<"]">>)[3], <<":">>)[3]
        ELSE Partition(hostinfo, <<":">>)[3]

\* ParseResult.port: None, the number, or ValueError for a port that is no
\* number or lies above 65535.
Port(netloc) ==
    LET text == PortText(netloc) IN
    IF text = <<>> THEN [raised |-> FALSE, none |-> TRUE, value |-> 0]
    ELSE IF ~IsDigits(text) \/ IntOf(text) > 65535
         THEN [raised |-> TRUE, none |-> TRUE, value |-> 0]
         ELSE [raised |-> FALSE, none |-> FALSE, value |-> IntOf(text)]

\* host_from_url(base_url): the name of the host directory, or the
\* ValueError of parsed.port leaving the function.
host_from_url(base_url) ==
    LET parsed == urlparse(base_url)
        host == IF parsed.netloc # <<>> THEN parsed.netloc ELSE parsed.path
        port == Port(parsed.netloc)
    IN  IF port.raised THEN [raised |-> TRUE, name |-> <<>>]
        ELSE IF ~port.none /\ port.value # 0
        THEN [raised |-> FALSE,
              name |-> sanitize_filename(Split(host, <<":">>, -1)[1] \o <<":">> \o IntStr(port.value))]
        ELSE [raised |-> FALSE, name |-> sanitize_filename(host)]

\* The pieces the base URLs are made of.
UrlSchemes == {<<"h", "t", "t", "p", ":", "/", "/">>, <<"h", "t", "t", "p", "s", ":", "/", "/">>}

UrlUsers == {<<>>, <<"u", "@">>, <<"u", ":", "p", "@">>}

PlainHosts == {<<"h">>, <<"h", ".", "c">>}

\* Host names and the IPv6 loopback address.
UrlHosts == PlainHosts \cup {<<"[", ":", ":", "1", "]">>}

UrlPorts == {<<>>, <<":", "8", "0">>, <<":", "8", "0", "8", "0">>, <<":", "0">>,
             <<":", "9", "9", "9", "9", "9">>}

UrlPaths == {<<>>, <<"/">>, <<"/", "w">>, <<"/", "w", "?", "q">>}

\* URLs with a scheme, and host names given without one.
Urls ==
    {s \o u \o h \o p \o t :
        s \in UrlSchemes, u \in UrlUsers, h \in UrlHosts, p \in UrlPorts, t \in UrlPaths}
    \cup {h \o t : h \in PlainHosts, t \in UrlPaths}

(***************************************************************************)
(* One call of a function on one input                                     *)
(***************************************************************************)

InitCalls ==
    /\ remote = <<>> /\ tree = <<>> /\ pc = "idle"
    /\ dry_run = FALSE /\ force = FALSE
    /\ fs_cards = <<>> /\ server_cards = <<>> /\ loaded = 0
    /\ changes = <<>> /\ answer = Unasked
    /\ idx = 0 /\ success_count = 0
    /\ result = "none" /\ calls = <<>> /\ clean = FALSE
    /\ edits = 0 /\ pushes = 0 /\ faults = 0
    /\ NoHost
    /\ called = "none"
    /\ arg \in NameInputs \cup Contents \cup Urls
    /\ ret = <<>>

\* The function f is called on the input.
CallOf(f, inputs) ==
    /\ called = "none"
    /\ arg \in inputs
    /\ called' = f
    /\ UNCHANGED <<arg, pushVars, hostVars>>

CallSanitize ==
    /\ CallOf("sanitize_filename", NameInputs)
    /\ ret' = sanitize_filename(arg)

\* The name that was returned is sanitized again, as WekanCardFS and
\* WekanListFS do with the names the cloner hands them.
CallSanitizeAgain ==
    /\ called = "sanitize_filename"
    /\ called' = "sanitize_filename twice"
    /\ ret' = sanitize_filename(ret)
    /\ UNCHANGED <<arg, pushVars, hostVars>>

CallHostFromUrl ==
    /\ CallOf("host_from_url", Urls)
    /\ ret' = host_from_url(arg)

CallLoadContent ==
    /\ CallOf("load_content", Contents)
    /\ ret' = load_content(arg)

NextCalls == CallSanitize \/ CallSanitizeAgain \/ CallHostFromUrl \/ CallLoadContent

SpecCalls == InitCalls /\ [][NextCalls]_vars

(***************************************************************************)
(* pusher.py: detection on bodies that hold the heading and the description *)
(***************************************************************************)

\* Blank lines between the heading and the text.
MaxBlank == 2

\* Descriptions a card of the service may carry: none, a word, a word with
\* a line end after it or a space before it, and two lines.
Descriptions ==
    {<<>>, TextX, <<"x", "\n">>, <<" ", "x">>, <<"x", "\n", "y">>}

HeadingBoards ==
    {<<Card(IdC1, t, d, "L1", n)>> : t \in Titles, d \in Descriptions, n \in {0, 1}}

InitHeading ==
    /\ remote \in HeadingBoards
    /\ tree = <<>>
    /\ pc = "idle"
    /\ dry_run = FALSE /\ force = FALSE
    /\ fs_cards = <<>> /\ server_cards = <<>> /\ loaded = 0
    /\ changes = <<>>
    /\ answer = Unasked
    /\ idx = 0 /\ success_count = 0
    /\ result = "none"
    /\ calls = <<>>
    /\ clean = FALSE
    /\ edits = 0 /\ pushes = 0 /\ faults = 0
    /\ NoHost
    /\ NoCall

\* The card file with its body replaced by the "# <title>" heading, k line
\* ends and the description of the card.
HeadingAndText(card, k) ==
    Edited(save_content(card), card.title,
           Heading(card.title) \o Rep("\n", k) \o card.description)

\* The user reduces the body of a card file to the heading and the
\* description.
UserPlainBody ==
    /\ UserStep
    /\ \E i \in 1..Len(remote), k \in 0..MaxBlank :
         LET p == <<ListDirName(ListTitle(remote[i].list)), CardFileName(remote[i])>> IN
         /\ p \in Paths(tree)
         /\ tree' = Write(tree, p, HeadingAndText(remote[i], k))

NextHeading == CloneBoard \/ UserPlainBody \/ StartStatus \/ StatusDetect \/ StatusPreview

SpecHeading == InitHeading /\ [][NextHeading]_vars


(***************************************************************************)
(* A body whose first line begins with the heading and goes on             *)
(***************************************************************************)

\* What the first line of the body carries after "# <title>".
Suffixes == {<<"x">>, <<"i", "n", "g">>}

\* The user writes a body whose first line is the heading followed by more
\* text, alone or with the description of the card below it.
UserHeadingPrefix ==
    /\ UserStep
    /\ \E i \in 1..Len(remote), s \in Suffixes, below \in BOOLEAN :
         LET p == <<ListDirName(ListTitle(remote[i].list)), CardFileName(remote[i])>> IN
         /\ p \in Paths(tree)
         /\ tree' = Write(tree, p,
                Edited(save_content(remote[i]), remote[i].title,
                       Heading(remote[i].title) \o s
                       \o (IF below THEN <<"\n", "\n">> \o remote[i].description ELSE <<>>)))

NextPrefix == CloneBoard \/ UserHeadingPrefix \/ StartStatus \/ StatusDetect \/ StatusPreview

SpecPrefix == InitHeading /\ [][NextPrefix]_vars


(***************************************************************************)
(* Card files without an id                                                *)
(***************************************************************************)

\* The text of a card file without the id entry of its preamble.
WithoutIdLine(text) ==
    LET parts == Split(text, MarkerLine, 2)
        lines == SelectSeq(Split(parts[2], <<"\n">>, -1),
                           LAMBDA l : ~StartsWith(l, KId \o <<":", " ">>))
    IN  MarkerLine \o JoinLines(lines) \o MarkerLine \o parts[3]

\* Files written by hand that carry no id: no preamble; a preamble with a
\* title only; an id of null; an empty preamble; a preamble that is a list;
\* a preamble that is not closed.
NoIdTexts ==
    { TextY \o <<"\n">>,
      MarkerLine \o YamlDump(<< <<KTitle, StrVal(TitleB)>> >>) \o MarkerLine \o TextY \o <<"\n">>,
      MarkerLine \o YamlDump(<< <<KId, NoneVal>>, <<KTitle, StrVal(TitleB)>> >>)
          \o MarkerLine \o TextY \o <<"\n">>,
      MarkerLine \o MarkerLine \o TextY \o <<"\n">>,
      MarkerLine \o <<"-", " ", "y", "\n">> \o MarkerLine \o TextY \o <<"\n">>,
      MarkerLine \o YamlDump(<< <<KId, StrVal(IdA1)>>, <<KTitle, StrVal(TitleB)>> >>) }

\* The user takes the id out of a card file, or adds a file without an id to
\* the directory of a list or to a new directory, which the walk may meet
\* before or after the other files.
UserNoId ==
    /\ UserStep
    /\ \/ \E p \in CardFiles(tree) : tree' = Write(tree, p, WithoutIdLine(TextAt(tree, p)))
       \/ \E dir \in {ListDirName(Todo), NewDir}, text \in NoIdTexts, first \in BOOLEAN :
             /\ <<dir, NewFileName>> \notin Paths(tree)
             /\ tree' = Place(tree, <<dir, NewFileName>>, text, first)

NextNoId ==
    \/ CloneBoard
    \/ UserNoId \/ UserDelete \/ UserCreate
    \/ StartPushOnce \/ Detect \/ Preview \/ Confirm
    \/ ApplyBegin \/ ApplyStep \/ ApplyEnd \/ Return

SpecNoId == Init /\ [][NextNoId]_vars

(***************************************************************************)
(* Properties                                                              *)
(***************************************************************************)

\* Views of the two snapshots used to state the properties.
LocalIds == {fs_cards[i].id : i \in 1..Len(fs_cards)}

RemoteIds == {server_cards[i].id : i \in 1..Len(server_cards)}

LocalTitle(rec) == Get(rec.frontmatter, KTitle, NoneVal)

SameTitle(rec, sc) == LocalTitle(rec) = StrVal(sc.card.title)

SameBody(rec, sc) == NormalizeBody(LocalTitle(rec), rec.body) = sc.card.description

SameList(rec, sc) == rec.list_name = sc.list_name

Remote(id) == ServerCard(server_cards, id)

\* The changes that name the card id, and those that refer to the file.
ChangesFor(id) == SelectSeq(changes, LAMBDA c : c.card_id = id)

ChangesAt(path) == SelectSeq(changes, LAMBDA c : c.file_path = path)

Types(cs) == [i \in 1..Len(cs) |-> cs[i].type]

\* C1: a push that follows a push which applied all its changes, with no edit
\* in between, detects an empty change list.
PushIdempotent == (pc = "preview" /\ clean) => changes = <<>>

\* C2: snapshots with the same ids and, per id, the same title, the same
\* normalized body and the same list give an empty change list.
SameSnapshots ==
    /\ LocalIds = RemoteIds
    /\ \A i \in 1..Len(fs_cards) :
         /\ SameTitle(fs_cards[i], Remote(fs_cards[i].id))
         /\ SameBody(fs_cards[i], Remote(fs_cards[i].id))
         /\ SameList(fs_cards[i], Remote(fs_cards[i].id))

DiffDeterminism == (pc = "preview" /\ SameSnapshots) => changes = <<>>

DiffDeterminismWitness == pc = "preview" /\ SameSnapshots /\ Len(fs_cards) = 2

\* C3: a local card whose id is not in the remote snapshot gets exactly one
\* CREATE, carrying its title, body and list name, and no other change; a
\* single local card against an empty remote gives that CREATE alone.
CreateForLocalOnly ==
    pc = "preview" =>
      /\ \A i \in 1..Len(fs_cards) :
           fs_cards[i].id \notin RemoteIds =>
             /\ ChangesFor(fs_cards[i].id) = <<>>
             /\ Len(ChangesAt(fs_cards[i].file_path)) = 1
             /\ LET c == ChangesAt(fs_cards[i].file_path)[1] IN
                /\ c.type = "create"
                /\ c.new_data.title = LocalTitle(fs_cards[i])
                /\ c.new_data.description = StrVal(fs_cards[i].body)
                /\ c.new_data.list_name = StrVal(fs_cards[i].list_name)
      /\ (server_cards = <<>> /\ Len(fs_cards) = 1) => Types(changes) = <<"create">>

CreateForLocalOnlyWitness ==
    /\ pc = "preview" /\ server_cards = <<>> /\ Len(fs_cards) = 1
    /\ fs_cards[1].id = StrVal(IdA1) /\ fs_cards[1].list_name = Todo
    /\ changes[1].new_data.title = StrVal(TitleB)

\* C4: a remote card whose id is not in the local snapshot gets exactly one
\* DELETE, and no DELETE names an id the local snapshot has.
DeleteForRemoteOnly ==
    pc = "preview" =>
      /\ \A j \in 1..Len(server_cards) :
           server_cards[j].id \notin LocalIds =>
             Types(ChangesFor(server_cards[j].id)) = <<"delete">>
      /\ \A k \in 1..Len(changes) :
           changes[k].type = "delete" => changes[k].card_id \notin LocalIds

DeleteForRemoteOnlyWitness ==
    /\ pc = "preview" /\ fs_cards # <<>>
    /\ \E j \in 1..Len(server_cards) : server_cards[j].id \notin LocalIds

\* C5: a card on both sides with the same title and normalized body in
\* another list gets exactly one MOVE, from the remote list name to the local
\* one, and nothing else.
MovedOnly(rec) ==
    /\ rec.id \in RemoteIds
    /\ SameTitle(rec, Remote(rec.id)) /\ SameBody(rec, Remote(rec.id))
    /\ ~SameList(rec, Remote(rec.id))

MoveForListChange ==
    pc = "preview" =>
      \A i \in 1..Len(fs_cards) :
        MovedOnly(fs_cards[i]) =>
          /\ Types(ChangesFor(fs_cards[i].id)) = <<"move">>
          /\ ChangesFor(fs_cards[i].id)[1].old_data.list_name
               = StrVal(Remote(fs_cards[i].id).list_name)
          /\ ChangesFor(fs_cards[i].id)[1].new_data.list_name = StrVal(fs_cards[i].list_name)

MoveForListChangeWitness ==
    pc = "preview" /\ \E i \in 1..Len(fs_cards) : MovedOnly(fs_cards[i])

\* C6: a card on both sides whose title or normalized body differs and whose
\* list differs gets one UPDATE with the old remote and the new local payload
\* and then one MOVE.
EditedAndMoved(rec) ==
    /\ rec.id \in RemoteIds
    /\ ~(SameTitle(rec, Remote(rec.id)) /\ SameBody(rec, Remote(rec.id)))
    /\ ~SameList(rec, Remote(rec.id))

UpdateThenMove ==
    pc = "preview" =>
      \A i \in 1..Len(fs_cards) :
        EditedAndMoved(fs_cards[i]) =>
          /\ Types(ChangesFor(fs_cards[i].id)) = <<"update", "move">>
          /\ LET u == ChangesFor(fs_cards[i].id)[1] IN
             /\ u.old_data.title = StrVal(Remote(fs_cards[i].id).card.title)
             /\ u.old_data.description = StrVal(Remote(fs_cards[i].id).card.description)
             /\ u.new_data.title = LocalTitle(fs_cards[i])
             /\ u.new_data.description = StrVal(fs_cards[i].body)

UpdateThenMoveWitness ==
    pc = "preview" /\ \E i \in 1..Len(fs_cards) : EditedAndMoved(fs_cards[i])

\* Renaming a file in place: same directory, same text, same place in the walk.
RMd == <<"r", ".", "m", "d">>

HiddenMd == <<".", "r", ".", "m", "d">>

RTxt == <<"r", ".", "t", "x", "t">>

RenameNames == {RMd, HiddenMd, RTxt}

Sibling(path, name) == SubSeq(path, 1, Len(path) - 1) \o <<name>>

Renamed(t, path, name) ==
    [i \in 1..Len(t) |->
        IF t[i].path = path THEN [path |-> Sibling(path, name), text |-> t[i].text] ELSE t[i]]

\* A change list without the file references of its changes.
WithoutPaths(cs) ==
    [i \in 1..Len(cs) |-> [type |-> cs[i].type, card_id |-> cs[i].card_id,
                           old_data |-> cs[i].old_data, new_data |-> cs[i].new_data]]

Range(s) == {s[i] : i \in 1..Len(s)}

DetectOn(t) == detect_card_changes(load_filesystem_cards(t), server_cards)

Repathed(cards, i, path) == [cards EXCEPT ![i].file_path = path]

Others(cards, i) == SubSeq(cards, 1, i - 1) \o SubSeq(cards, i + 1, Len(cards))

Reordered(cards, i, first) ==
    IF first THEN <<cards[i]>> \o Others(cards, i) ELSE Others(cards, i) \o <<cards[i]>>

CardPath(card) == <<ListDirName(ListTitle(card.list)), CardFileName(card)>>

ReadBack(card) == ParseCard(CardPath(card), save_content(card))

SerializationRoundTrip ==
    \A i \in 1..Len(remote) :
      LET rec == ReadBack(remote[i]) IN
      /\ rec.ok
      /\ rec.id = StrVal(remote[i].id)
      /\ LocalTitle(rec) = StrVal(remote[i].title)
      /\ NormalizeBody(LocalTitle(rec), rec.body) = remote[i].description

\* C9: a step of a dry run leaves the remote board as it is, forced or not,
\* and the run ends with success.
DryRunNoMutation ==
    [][dry_run => (remote' = remote /\ calls' = calls /\ (pc' = "report" => result' = "success"))]_vars

DryRunNoMutationWitness ==
    pc = "report" /\ dry_run /\ force /\ Len(changes) >= 2 /\ result = "success"

\* C10: in a push neither forced nor dry, no mutating call is made before the
\* answer y or Y, and any other answer ends the push with no call made and
\* with failure.
Affirmative(typed) == typed \in {<<"y">>, <<"Y">>}

ConfirmBeforeMutation ==
    /\ (~force /\ ~dry_run /\ (calls # <<>> \/ pc \in {"apply", "applying"}))
         => Affirmative(answer)
    /\ (answer # Unasked /\ ~Affirmative(answer))
         => (pc = "report" /\ calls = <<>> /\ result = "failure")
    /\ (pc = "confirm") => (calls = <<>> /\ changes # <<>>)

ConfirmBeforeMutationWitness ==
    /\ pc = "report" /\ ~force /\ ~dry_run /\ changes # <<>>
    /\ answer = <<"y", "e", "s">> /\ result = "failure"

\* A turn of the apply loop: the steps that move the loop index.
LoopTurn == pc = "applying" /\ idx' # idx

IsPrefix(s, t) == Len(s) <= Len(t) /\ SubSeq(t, 1, Len(s)) = s

OnBoard(board, id) == \E i \in 1..Len(board) : board[i].id = id /\ ~board[i].archived

\* A turn of the loop in which no remote call raises.
QuietTurn == LoopTurn /\ faults' = faults

\* C12: a turn that applies a DELETE with no call raising counts as applied;
\* a card on the board is archived by one archive call and stays among the
\* cards of the service, a card not on the board leaves the board and the
\* calls as they are; applying the same DELETE once more succeeds with no call.
DeleteArchivesOrSucceeds ==
    [][(QuietTurn /\ changes[idx].type = "delete") =>
         LET id == changes[idx].card_id.v
             again == apply_delete(remote', changes[idx], "none")
         IN  /\ success_count' = success_count + 1
             /\ [i \in 1..Len(remote') |-> remote'[i].id] = [i \in 1..Len(remote) |-> remote[i].id]
             /\ IF OnBoard(remote, id)
                THEN /\ calls' = Append(calls, <<"archive", id>>)
                     /\ remote' = [i \in 1..Len(remote) |->
                                     IF remote[i].id = id
                                     THEN [remote[i] EXCEPT !.archived = TRUE] ELSE remote[i]]
                ELSE calls' = calls /\ remote' = remote
             /\ again.ok /\ again.call = <<>> /\ again.board = remote']_vars

\* A DELETE of a card another client had archived counted as applied.
DeleteArchivesOrSucceedsWitness ==
    /\ pc = "report" /\ result = "success" /\ success_count = 1 /\ calls = <<>>
    /\ Len(changes) = 1 /\ changes[1].type = "delete"
    /\ \E i \in 1..Len(remote) : remote[i].id = changes[1].card_id.v /\ remote[i].archived

\* No list of the board has a title that sanitizes to the name.
Unresolved(name) ==
    \A l \in 1..Len(Lists) : name # StrVal(sanitize_filename(ListTitle(Lists[l][1])))

NothingDone ==
    /\ success_count' = success_count /\ remote' = remote /\ calls' = calls
    /\ idx' = idx + 1 /\ pc' = "applying"

\* C13: a turn for a CREATE or a MOVE whose list name no list of the board
\* answers to, and a turn for an UPDATE or a MOVE whose card is not on the
\* board, does not count, makes no call and leaves the board as it is, and the
\* loop goes on to the next change.
LookupFailureMutatesNothing ==
    [][LoopTurn =>
         /\ (changes[idx].type \in {"create", "move"}
              /\ Unresolved(changes[idx].new_data.list_name)) => NothingDone
         /\ (changes[idx].type \in {"update", "move"}
              /\ ~OnBoard(remote, changes[idx].card_id.v)) => NothingDone]_vars

\* A CREATE into a directory no list answers to failed, with no call raising.
LookupFailureMutatesNothingWitness ==
    /\ pc = "report" /\ result = "failure" /\ faults = 0
    /\ Len(changes) = 1 /\ changes[1].type = "create"
    /\ changes[1].new_data.list_name = StrVal(NewDir)
    /\ success_count = 0 /\ calls = <<>>

\* The phase changes of a push and of a status run.
PhaseOrder ==
    <<pc, pc'>> \in { <<"idle", "detect">>, <<"detect", "preview">>,
                      <<"preview", "confirm">>, <<"preview", "apply">>, <<"preview", "report">>,
                      <<"confirm", "apply">>, <<"confirm", "report">>,
                      <<"apply", "applying">>, <<"apply", "report">>,
                      <<"applying", "report">>, <<"report", "idle">>,
                      <<"idle", "status">>, <<"status", "status_preview">>,
                      <<"status_preview", "idle">> }

\* C14: the phases of a push come in the order detect, preview, confirm,
\* apply, report and those of a status run are detect and preview only; the
\* board changes in the apply loop alone; an empty change list goes from the
\* preview straight to the report with success, no prompt and no call; a
\* status run makes no call and leaves the board as it is; a push that was
\* started reaches the report with success or failure, and a status run ends.
PushPhases ==
    /\ [][/\ (pc' # pc) => PhaseOrder
          /\ (remote' # remote \/ calls' # calls) => (pc = "applying" \/ pc = "report")
          /\ (remote' # remote) => (pc = "applying")
          /\ (pc = "preview" /\ changes = <<>>) =>
                (pc' = "report" /\ result' = "success" /\ answer' = Unasked /\ calls' = <<>>)
          /\ (pc = "detect") => (changes' = detect_card_changes(fs_cards', server_cards'))
          /\ (pc \in {"status", "status_preview"}) => (pc' \notin {"confirm", "apply", "applying"})]_vars
    /\ [](pc \in {"status", "status_preview"} => calls = <<>> /\ answer = Unasked)
    /\ [](pc = "report" => result \in {"success", "failure"})
    /\ (pc = "detect") ~> (pc = "report")
    /\ (pc = "status") ~> (pc = "idle")

\* A confirmed push went through every phase and applied its changes.
PushPhasesWitness ==
    /\ pc = "report" /\ result = "success" /\ answer = <<"Y">>
    /\ Len(changes) >= 2 /\ success_count = Len(changes) /\ Len(calls) >= 2

\* The three rules of the board filter, each on its own.
ByIndex(all_boards, filter) ==
    IF IsDigits(filter) /\ IntOf(filter) < Len(all_boards)
    THEN <<all_boards[IntOf(filter) + 1]>> ELSE <<>>

ById(all_boards, filter) == SelectSeq(all_boards, LAMBDA b : b.id = filter)

ByTitle(all_boards, filter) ==
    SelectSeq(all_boards, LAMBDA b : re_search(filter, b.title) = "match")

\* The first rule that selects a board decides.
FirstRule(all_boards, filter) ==
    IF ByIndex(all_boards, filter) # <<>> THEN ByIndex(all_boards, filter)
    ELSE IF ById(all_boards, filter) # <<>> THEN ById(all_boards, filter)
    ELSE ByTitle(all_boards, filter)

\* C15: with a filter, the boards clone_host goes on with are those of the
\* first of the three rules (index, id, title pattern) that selects any: a
\* number that is no index is still tried as id and as pattern, and a filter
\* that is the id of a board selects that board alone.
FilterResolution ==
    (cpc \in {"cloning", "returned"} /\ board_filter # NoFilter) =>
        selected = FirstRule(host_boards, board_filter)

Files(log) == {<<log[i].file, log[i].at>> : i \in 1..Len(log)}

\* The pass has written nothing below the host's own metadata directory.
NoBoardCloned == \A i \in 1..Len(written) : written[i].at = HostAt

PastListBoards == cpc \in {"cloning", "returned", "raised"} /\ ~Fails("connect", HostAt)

NoRuleSelects ==
    /\ board_filter # NoFilter
    /\ ~Fails("list_boards", HostAt)
    /\ ByIndex(host_boards, board_filter) = <<>>
    /\ ById(host_boards, board_filter) = <<>>
    /\ ByTitle(host_boards, board_filter) = <<>>

Compiles(pattern) == re_search(pattern, <<>>) # "error"

PointsOfCard(card) == {"get_checklists", "get_comments", "card_file"} \X {card.id}

PointsOfList(list) ==
    ({"list_config", "get_cards"} \X {list.id})
    \cup UNION {PointsOfCard(list.cards[i]) : i \in 1..Len(list.cards)}

PointsOfBoard(board) ==
    ({"board_config", "list_swimlanes", "get_labels", "list_custom_fields",
      "list_integrations", "get_members", "get_lists"} \X {board.id})
    \cup UNION {PointsOfList(board.lists[i]) : i \in 1..Len(board.lists)}

ClonedCard(card) == <<"card", card.id>> \in Files(written)

ClonedList(list) ==
    /\ <<"list_config", list.id>> \in Files(written)
    /\ \A i \in 1..Len(list.cards) : ClonedCard(list.cards[i])

ClonedBoard(board) ==
    /\ {"board_config", "labels.json", "custom-fields.json", "integrations.json",
        "members.json"} \X {board.id} \subseteq Files(written)
    /\ \A i \in 1..Len(board.lists) : ClonedList(board.lists[i])

\* clone_host has ended after it went into the loop over the boards.
CloneEnded == cpc \in {"returned", "raised"} /\ selected # <<>>

\* A card whose checklists or comments could not be fetched has its file.
CardIsolation ==
    \A b \in 1..Len(selected) : \A l \in 1..Len(selected[b].lists) :
        \A c \in 1..Len(selected[b].lists[l].cards) :
            LET card == selected[b].lists[l].cards[c] IN
            (/\ failing \cap PointsOfBoard(selected[b]) # {}
             /\ failing \cap PointsOfBoard(selected[b])
                  \subseteq {"get_checklists", "get_comments"} \X {card.id})
            => ClonedCard(card)

\* The lists beside one that failed are cloned.
ListIsolation ==
    \A b \in 1..Len(selected) : \A l \in 1..Len(selected[b].lists) :
        (/\ failing \cap PointsOfBoard(selected[b]) # {}
         /\ \E k \in 1..Len(selected[b].lists) :
              /\ k # l
              /\ failing \cap PointsOfBoard(selected[b]) \subseteq PointsOfList(selected[b].lists[k]))
        => ClonedList(selected[b].lists[l])

\* The boards beside one that failed are cloned, and clone_host returns.
BoardIsolation ==
    /\ cpc = "returned"
    /\ \A b \in 1..Len(selected) :
         (failing \cap PointsOfBoard(selected[b]) = {}) => ClonedBoard(selected[b])

\* C17: when clone_host has ended, a card whose checklists or comments call
\* raised has its file, the lists beside a list in which a call or a write
\* raised are cloned, and the boards beside a board in which a call or a
\* write raised (the write of its metadata included) are cloned, clone_host
\* having returned.
FailureIsolation ==
    CloneEnded => (CardIsolation /\ ListIsolation /\ BoardIsolation)

TopCalls == {"connect", "list_boards"} \X {HostAt}

\* C18: a connect that raises makes clone_host raise before anything is
\* written, a list_boards that raises makes it raise with no board cloned;
\* when clone_host has raised and nothing but calls of the service failed
\* and the filter compiles, one of these two calls has failed: no failure of
\* get_users or of a call made for a board, a list or a card makes clone_host
\* raise.
OnlyTopCallsFatal ==
    /\ (cpc # "start" /\ Fails("connect", HostAt)) => (cpc = "raised" /\ written = <<>>)
    /\ (cpc \notin {"start", "connected"} /\ Fails("list_boards", HostAt))
         => (cpc = "raised" /\ NoBoardCloned)
    /\ (cpc = "raised" /\ failing \subseteq RemoteCalls /\ Compiles(board_filter))
         => (failing \cap TopCalls # {})
    /\ (cpc = "raised")
         => \/ failing \cap TopCalls # {}
            \/ ~Compiles(board_filter)
            \/ \E b \in BoardIds : Fails("board_config", b)

\* list_boards raised on a host with boards after the host's metadata was
\* written.
OnlyTopCallsFatalWitness ==
    /\ cpc = "raised" /\ Fails("list_boards", HostAt) /\ host_boards # <<>>
    /\ <<"users.json", HostAt>> \in Files(written)

\* A pass in which get_users raised has cloned every board.
UsersFailureSurvived ==
    /\ cpc = "returned" /\ Fails("get_users", HostAt)
    /\ selected # <<>> /\ \A b \in 1..Len(selected) : ClonedBoard(selected[b])

\* The positions in the log at which a file was written.
WritesOf(file, at) == {i \in 1..Len(written) : written[i].file = file /\ written[i].at = at}

CardWrites == {k \in 1..Len(written) : written[k].file = "card"}

\* Every card file comes after a write of the users cache and after a write
\* of its board's labels cache, and a pass that has returned has written each
\* cache of the host and of the boards it cloned exactly once.
CachesOncePerPass ==
    /\ \A k \in CardWrites :
         /\ \E j \in WritesOf("users.json", HostAt) : j < k
         /\ \E j \in WritesOf("labels.json", written[k].data.board) : j < k
    /\ \A b \in BoardIds : Cardinality(WritesOf("labels.json", b)) <= 1
    /\ Cardinality(WritesOf("users.json", HostAt)) <= 1
    /\ (cpc = "returned") =>
         /\ Cardinality(WritesOf("users.json", HostAt)) = 1
         /\ \A b \in 1..Len(selected) : Cardinality(WritesOf("labels.json", selected[b].id)) = 1

\* C19: the labels cache of a board is written exactly once with the
\* board's metadata, before every card file of the board, empty when
\* get_labels raised; the users cache is written at most once, directly
\* after the host's descriptor and so before every card file, and not at all
\* when get_users raised; no write of a cache comes after the write of a
\* card file that read the cache.
CacheBeforeCards ==
    /\ \A k \in CardWrites :
         /\ \E j \in WritesOf("labels.json", written[k].data.board) : j < k
         /\ \A r \in written[k].data.reads : \A j \in WritesOf(r[1], r[2]) : j < k
         /\ Fails("get_users", HostAt) \/ \E j \in WritesOf("users.json", HostAt) : j < k
    /\ \A b \in BoardIds :
         /\ Cardinality(WritesOf("labels.json", b)) <= 1
         /\ Cardinality(WritesOf("labels.json", b)) = Cardinality(WritesOf("board_config", b))
         /\ \A j \in WritesOf("labels.json", b) :
              written[j].data = IF Fails("get_labels", b) THEN <<>>
                                ELSE host_boards[CHOOSE i \in 1..Len(host_boards) :
                                                   host_boards[i].id = b].labels
    /\ WritesOf("users.json", HostAt) =
         IF cpc = "start" \/ Fails("connect", HostAt) \/ Fails("get_users", HostAt) THEN {} ELSE {2}

\* A card that carries a label and a member was written from both caches.
CacheBeforeCardsWitness ==
    /\ cpc = "returned" /\ failing = {}
    /\ \E k \in CardWrites :
         /\ written[k].data.reads = {<<"labels.json", <<"b", "1">>>>, <<"users.json", HostAt>>}
         /\ written[k].data.labels = <<"bug">> /\ written[k].data.members = <<"ann">>

\* The cards of the host, and the one a card file was written for.
CardsOfBoard(board) == UNION {Range(board.lists[l].cards) : l \in 1..Len(board.lists)}

HostCards == UNION {CardsOfBoard(host_boards[b]) : b \in 1..Len(host_boards)}

CardOf(id) == CHOOSE c \in HostCards : c.id = id

\* What the preamble of a card file holds under the keys labels, members
\* and assignees; no other key of the preamble takes its value from the
\* card's label ids, members or assignees.
PreambleValues(data) == Range(data.labels) \cup Range(data.members) \cup Range(data.assignees)

\* C20: every label id, member id and assignee id of a card is in the
\* preamble of the card's file, whether or not the caches gave a name for it.
IdsRetained ==
    \A k \in CardWrites :
        Range(CardOf(written[k].at).label_ids) \cup Range(CardOf(written[k].at).members)
            \cup Range(CardOf(written[k].at).assignees)
        \subseteq PreambleValues(written[k].data)

\* The directory is as a clone pass of the board leaves it.
JustCloned == tree = CloneLists(tree, remote, 1)

\* C21: when the directory is as a clone pass has left it, whatever an
\* earlier clone had written into it, a detect on it gives no CREATE, no
\* MOVE and no DELETE.
CloneIsFullOverwrite ==
    (pc = "status_preview" /\ JustCloned) =>
        \A i \in 1..Len(changes) : changes[i].type \notin {"create", "move", "delete"}

\* C22: a detect on the tree of a clone into an empty directory, the board
\* unchanged since, finds the ids of the board's cards, each in a file of its
\* own, and gives no DELETE.
OneFilePerCard ==
    (pc = "status_preview" /\ edits = 0 /\ tree # <<>>) =>
        /\ LocalIds = RemoteIds
        /\ Cardinality(CardFiles(tree)) = Len(server_cards)
        /\ \A i \in 1..Len(changes) : changes[i].type # "delete"


\* The path of the file the clone wrote for a card whose file name is name.
ClonedPath(card, name) == <<ListDirName(ListTitle(card.list)), name>>

\* "<card_number:03d>-" for a card with a number, nothing otherwise.
NumberPrefix(card) ==
    IF card.card_number # 0 THEN Format03d(card.card_number) \o <<"-">> ELSE <<>>

\* The number prefix and the sanitized title.
Stem(card) == NumberPrefix(card) \o sanitize_filename(card.title)

\* C23 (as stated): the file the clone writes for a card is named
\* "<card_number padded to three digits>-<sanitize(title)>.md" when the card
\* has a number and "<sanitize(title)>.md" otherwise, for every title.
FileNameIsPrefixAndTitle ==
    tree # <<>> =>
        \A i \in 1..Len(remote) :
            ClonedPath(remote[i], Stem(remote[i]) \o DotMd) \in Paths(tree)

\* C23 (amended): the file is named by the number prefix and the sanitized
\* title when the two together are at most 200 characters long; a longer
\* stem is cut to its first 200 characters, and the underscores and dots the
\* cut leaves at its end are dropped, before ".md" is added.
FileNameIsCutStem ==
    tree # <<>> =>
        \A i \in 1..Len(remote) :
            LET stem == Stem(remote[i])
                cut == IF Len(stem) > MaxNameLen
                       THEN RStrip(Take(stem, MaxNameLen), TrimChars)
                       ELSE stem
            IN  ClonedPath(remote[i], cut \o DotMd) \in Paths(tree)

\* A cloned card with a number whose sanitized title is 200 characters long.
FileNameIsCutStemWitness ==
    /\ tree # <<>>
    /\ \E i \in 1..Len(remote) :
         /\ remote[i].card_number # 0
         /\ Len(sanitize_filename(remote[i].title)) = MaxNameLen


\* A file below a metadata directory, or one with an export-dump name.
Reserved(path) ==
    \/ \E k \in 1..(Len(path) - 1) : path[k] \in ReservedDirs
    \/ Contains(FileName(path), ExportBoard)

\* C24: no record of the local snapshot comes from a file inside a metadata
\* directory (.wekan-host, .wekan-board, .wekan-list) or from a file with an
\* export-dump name, whatever the file contains.
ReaderSkipsReserved ==
    \A i \in 1..Len(fs_cards) : ~Reserved(fs_cards[i].file_path)

\* The part of C24 about the file name alone: no record comes from a file
\* with an export-dump name or a hidden name.
ReaderSkipsByName ==
    \A i \in 1..Len(fs_cards) :
        /\ ~Contains(FileName(fs_cards[i].file_path), ExportBoard)
        /\ FileName(fs_cards[i].file_path)[1] # "."

\* A snapshot was read from a tree that holds a card file with an export-dump name.
ReaderSkipsByNameWitness ==
    /\ pc = "status_preview"
    /\ \E p \in Paths(tree) :
         /\ Contains(FileName(p), ExportBoard)
         /\ ParseCard(p, TextAt(tree, p)).ok


\* A card file is well formed when it opens with the marker line, has a
\* closing marker line, and the preamble between them is a mapping.
WellFormed(content) ==
    LET parts == Split(content, MarkerLine, 2) IN
    /\ StartsWith(content, MarkerLine)
    /\ Len(parts) >= 3
    /\ YamlLoad(parts[2]).kind = "map"

\* C25: load_content raises for no file content, and for every malformed
\* content (no opening marker, one marker, empty preamble, preamble that is
\* no mapping, invalid preamble, empty file) it returns the empty mapping
\* with the whole content as body.
ParseFallsBack ==
    called = "load_content" =>
        /\ ret.result \in {"parsed", "fallback"}
        /\ ~WellFormed(arg) => (ret.frontmatter = EmptyMap /\ ret.body = arg)

\* The cases of C25 the code does treat so: content without the opening
\* marker, with one marker, or with a preamble the YAML parser rejects.
ParseFallsBackOnNoPreamble ==
    (/\ called = "load_content"
     /\ arg # <<>>
     /\ BadByte \notin {arg[i] : i \in 1..Len(arg)}
     /\ \/ ~StartsWith(arg, MarkerLine)
        \/ Len(Split(arg, MarkerLine, 2)) < 3
        \/ YamlRaises(Split(arg, MarkerLine, 2)[2]))
    => (ret.result = "fallback" /\ ret.frontmatter = EmptyMap /\ ret.body = arg)


\* C26: sanitize is idempotent: the name sanitized a second time is the name
\* the first call returned, also for inputs longer than 200 characters and
\* for inputs that give the fallback name.
SanitizeIdempotent ==
    called = "sanitize_filename twice" => ret = sanitize_filename(arg)

\* A name that was cut at 200 characters, next to a character the cut
\* strips, has been sanitized twice.
SanitizeIdempotentWitness ==
    /\ called = "sanitize_filename twice"
    /\ Len(arg) > MaxNameLen
    /\ arg[MaxNameLen] \in TrimChars
    /\ Len(ret) < MaxNameLen

\* A string made only of characters the sanitizer replaces or trims.
OnlyDisallowed(name) ==
    \A i \in 1..Len(name) : name[i] \in UnsafeChars \cup Whitespace \cup TrimChars

\* C27: the name sanitize returns is not empty, at most 200 characters long,
\* holds no unsafe character, no whitespace and no two underscores in a row,
\* and neither starts nor ends with an underscore or a dot; the empty string
\* and a string of disallowed characters alone give "untitled".
SanitizeIsSafe ==
    called = "sanitize_filename" =>
        /\ ret # <<>>
        /\ Len(ret) <= MaxNameLen
        /\ \A i \in 1..Len(ret) : ret[i] \notin UnsafeChars \cup Whitespace
        /\ \A i \in 1..(Len(ret) - 1) : ~(ret[i] = "_" /\ ret[i + 1] = "_")
        /\ ret[1] \notin {"_", "."}
        /\ ret[Len(ret)] \notin {"_", "."}
        /\ OnlyDisallowed(arg) => ret = Untitled

\* A string of several disallowed characters has been sanitized.
SanitizeIsSafeWitness ==
    /\ called = "sanitize_filename"
    /\ Len(arg) = MaxShort
    /\ OnlyDisallowed(arg)
    /\ ret = Untitled


\* host[:port] of a URL as the URL syntax defines it: what stands between
\* the "scheme://" and the first "/", "?" or "#", without the user
\* information that ends with "@".
HostPort(url) ==
    LET k == Find(url, <<":", "/", "/">>, 1)
        rest == IF k > 0 THEN Drop(url, k + 2) ELSE url
        cut == FirstOf({j \in 1..Len(rest) : rest[j] \in {"/", "?", "#"}}, Len(rest))
    IN  AfterLast(Take(rest, cut - 1), "@")

\* C28: host_from_url returns sanitize(host[:port]) for every URL: scheme and
\* path are dropped, the colon before the port becomes an underscore, and a
\* URL without a port gives the bare host name.
HostFromUrlIsHostPort ==
    called = "host_from_url" =>
        /\ ~ret.raised
        /\ ret.name = sanitize_filename(HostPort(arg))

\* The URLs for which host_from_url does return sanitize(host[:port]): those
\* with a scheme, a host name that is no bracketed address, no user
\* information and a port up to 65535.
HostFromUrlOnPlainUrls ==
    (/\ called = "host_from_url"
     /\ \E s \in UrlSchemes, h \in PlainHosts, p \in UrlPorts, t \in UrlPaths :
           /\ arg = s \o h \o p \o t
           /\ Len(p) <= 5)
    => (~ret.raised /\ ret.name = sanitize_filename(HostPort(arg)))


\* The position in the local snapshot of the record a create, update or move
\* was detected for.
LocalPos(change) ==
    CHOOSE i \in 1..Len(fs_cards) :
        IF change.type = "create" THEN fs_cards[i].file_path = change.file_path
        ELSE fs_cards[i].id = change.card_id

\* The position in the remote snapshot of the card a delete was detected for.
RemotePos(change) ==
    CHOOSE i \in 1..Len(server_cards) : server_cards[i].id = change.card_id

\* The change type a mutating remote call belongs to.
TypeOfCall(kind) ==
    CASE kind = "add_card" -> "create"
      [] kind = "edit" -> "update"
      [] kind = "move" -> "move"
      [] kind = "archive" -> "delete"

\* The mutating calls made so far were made for changes before position idx,
\* each for a later change than the call before it.
CallsFollowChanges ==
    \E f \in [1..Len(calls) -> 1..(idx - 1)] :
        /\ \A k \in 1..(Len(calls) - 1) : f[k] < f[k + 1]
        /\ \A k \in 1..Len(calls) :
             /\ TypeOfCall(calls[k][1]) = changes[f[k]].type
             /\ changes[f[k]].type # "create" => StrVal(calls[k][2]) = changes[f[k]].card_id

\* C29: the change list holds the creates, updates and moves in the order of
\* the local snapshot, the update of a card right before its move, then the
\* deletes in the order of the remote snapshot; no delete stands before a
\* create, update or move, and the apply loop makes its calls in that order.
ChangeOrdering ==
    /\ \A i \in 1..Len(changes) : \A j \in (i + 1)..Len(changes) :
         /\ changes[i].type = "delete" => changes[j].type = "delete"
         /\ (changes[i].type # "delete" /\ changes[j].type # "delete") =>
               /\ LocalPos(changes[i]) <= LocalPos(changes[j])
               /\ LocalPos(changes[i]) = LocalPos(changes[j]) =>
                     (j = i + 1 /\ changes[i].type = "update" /\ changes[j].type = "move")
         /\ (changes[i].type = "delete" /\ changes[j].type = "delete") =>
               RemotePos(changes[i]) < RemotePos(changes[j])
    /\ pc \in {"applying", "report"} => CallsFollowChanges

\* The apply loop went through a list with an update before a delete and
\* made a call for each.
ChangeOrderingWitness ==
    /\ pc = "applying"
    /\ idx > Len(changes)
    /\ \E i \in 1..(Len(changes) - 1) :
         changes[i].type = "update" /\ changes[i + 1].type = "delete"
    /\ Len(calls) = Len(changes)

\* A list with the update of a card right before its move was detected.
UpdateBeforeMove ==
    \E i \in 1..(Len(changes) - 1) :
        /\ changes[i].type = "update" /\ changes[i + 1].type = "move"
        /\ changes[i].card_id = changes[i + 1].card_id


\* Every card of the board has a file whose body is the "# <title>" heading,
\* some blank lines and the description of the card.
BodiesAreHeadingAndText ==
    /\ tree # <<>>
    /\ \A i \in 1..Len(remote) :
         LET p == ClonedPath(remote[i], CardFileName(remote[i])) IN
         /\ p \in Paths(tree)
         /\ \E k \in 0..MaxBlank : TextAt(tree, p) = HeadingAndText(remote[i], k)

\* C30: a local body made of the generated heading, any number of blank
\* lines and the text of the remote description is detected as unchanged.
HeadingNeverUpdates ==
    (pc = "status_preview" /\ BodiesAreHeadingAndText) =>
        \A i \in 1..Len(changes) : changes[i].type # "update"

\* The same for the descriptions that neither start nor end with whitespace.
HeadingNeverUpdatesTrimmedText ==
    (/\ pc = "status_preview"
     /\ BodiesAreHeadingAndText
     /\ \A i \in 1..Len(remote) :
          Strip(remote[i].description, Whitespace) = remote[i].description)
    => \A i \in 1..Len(changes) : changes[i].type # "update"

\* Detection ran on a body with the heading, two blank lines and a description.
HeadingNeverUpdatesTrimmedTextWitness ==
    /\ pc = "status_preview"
    /\ changes = <<>>
    /\ \E i \in 1..Len(remote) :
         /\ remote[i].description = <<"x", "\n", "y">>
         /\ TextAt(tree, ClonedPath(remote[i], CardFileName(remote[i])))
              = HeadingAndText(remote[i], MaxBlank)


\* The change list a detection would give now: the local files are those of
\* the snapshot, the remote snapshot is read again.
Redetected == detect_card_changes(fs_cards, load_server_cards(remote, Len(Lists)))

\* The card ids of the mutating calls of the given kind made by this run.
CalledIds(kind) == {calls[k][2] : k \in {j \in 1..Len(calls) : calls[j][1] = kind}}

\* The remote card with the id.
RemoteCard(id) == remote[CHOOSE i \in 1..Len(remote) : remote[i].id = id]

\* The record of the local snapshot with the id.
LocalRecord(id) == fs_cards[CHOOSE i \in 1..Len(fs_cards) : fs_cards[i].id = StrVal(id)]

\* C31: after the apply loop, every card an UPDATE was applied to has the
\* title of its local record and, as description, the local body without
\* the generated heading, and a detection on the same files emits no UPDATE
\* for it.
UpdateMakesRemoteMatch ==
    pc = "report" =>
        \A id \in CalledIds("edit") :
            LET title == Get(LocalRecord(id).frontmatter, KTitle, StrVal(<<>>)) IN
            /\ StrVal(RemoteCard(id).title) = title
            /\ RemoteCard(id).description = NormalizeBody(title, LocalRecord(id).body)
            /\ \A i \in 1..Len(Redetected) :
                 ~(Redetected[i].type = "update" /\ Redetected[i].card_id = StrVal(id))

\* The part of C31 about the title, and about bodies that do not start with
\* the generated heading: the remote title is the local title, and when the
\* body is its own normalized form the detection emits no UPDATE.
UpdateMatchesPlainBody ==
    pc = "report" =>
        \A id \in CalledIds("edit") :
            LET title == Get(LocalRecord(id).frontmatter, KTitle, StrVal(<<>>)) IN
            /\ title.t = "str" => StrVal(RemoteCard(id).title) = title
            /\ (title.t = "str" /\ NormalizeBody(title, LocalRecord(id).body) = LocalRecord(id).body) =>
                  \A i \in 1..Len(Redetected) :
                      ~(Redetected[i].type = "update" /\ Redetected[i].card_id = StrVal(id))

\* C32: after the apply loop made a card for a CREATE, a detection on the
\* same files emits no CREATE for the local record the card was made from
\* and no DELETE for the card that was made.
RepushAfterCreateIsSafe ==
    (pc = "report" /\ CalledIds("add_card") # {}) =>
        \A i \in 1..Len(Redetected) :
            /\ Redetected[i].type # "create"
            /\ ~(Redetected[i].type = "delete" /\ Redetected[i].card_id.v \in CalledIds("add_card"))


\* The id of the local record a CREATE was detected for.
CreatedFrom(change) ==
    fs_cards[CHOOSE i \in 1..Len(fs_cards) : fs_cards[i].file_path = change.file_path].id

\* C33: when the load of the remote snapshot ended before every list was
\* read, the run makes no mutating call, and no card that is on the board is
\* reported as CREATE.
IncompleteSnapshotMutatesNothing ==
    (pc \in {"preview", "confirm", "apply", "applying", "report"} /\ loaded < Len(Lists)) =>
        /\ calls = <<>>
        /\ \A i \in 1..Len(changes) :
             changes[i].type = "create" =>
                 ~\E k \in 1..Len(remote) :
                      ~remote[k].archived /\ StrVal(remote[k].id) = CreatedFrom(changes[i])


\* C34: a turn of the apply loop counts a DELETE as applied only when the
\* card is not on the board afterwards: it was archived, or no list yields it.
DeleteCountedOnlyWhenGone ==
    [][(LoopTurn /\ changes[idx].type = "delete" /\ success_count' = success_count + 1) =>
          ~OnBoard(remote', changes[idx].card_id.v)]_vars

\* The same for the turns in which no remote call raises.
DeleteCountedOnlyWhenGoneQuiet ==
    [][(QuietTurn /\ changes[idx].type = "delete" /\ success_count' = success_count + 1) =>
          ~OnBoard(remote', changes[idx].card_id.v)]_vars


\* C35: for every list title the directory name of the clone, the title
\* sanitized twice, is the list name the push derives, the title sanitized
\* once, and the list test of the detection sees no difference between them.
ListNamesAgree ==
    called = "sanitize_filename" =>
        /\ ListDirName(arg) = ret
        /\ ~ListChanged([list_name |-> ListDirName(arg)], [list_name |-> ret])

\* The list name of the push was derived from a title that sanitizing changes.
ListNamesAgreeWitness ==
    /\ called = "sanitize_filename"
    /\ ret # arg
    /\ ret # Untitled
    /\ Len(arg) <= MaxShort

\* The part of C35 about the cards of a clone: a record read from the
\* directory the clone made for the list of its card gives no MOVE.
NoMoveWhenInPlace ==
    pc = "preview" =>
        \A i \in 1..Len(changes) :
            changes[i].type = "move" =>
                \A k \in 1..Len(fs_cards), j \in 1..Len(server_cards) :
                    (fs_cards[k].id = changes[i].card_id /\ server_cards[j].id = changes[i].card_id)
                    => fs_cards[k].list_name # ListDirName(ListTitle(server_cards[j].list_id))


\* The positions of the changes of this type in the change list.
ChangesOfType(type) == {i \in 1..Len(changes) : changes[i].type = type}

\* C36: the change list of every detection is well formed: of the types
\* update, move and delete no card id has two changes of one type, an id with
\* an update or a move has no delete, every one of them carries the id of a
\* card of the remote snapshot, and every create carries no id and is for a
\* local record whose id is not in the remote snapshot.
ChangeListWellFormed ==
    /\ \A type \in {"update", "move", "delete"} :
         \A i, j \in ChangesOfType(type) : changes[i].card_id = changes[j].card_id => i = j
    /\ \A i \in ChangesOfType("update") \cup ChangesOfType("move") :
         \A j \in ChangesOfType("delete") : changes[i].card_id # changes[j].card_id
    /\ \A i \in ChangesOfType("update") \cup ChangesOfType("move") \cup ChangesOfType("delete") :
         HasId(server_cards, changes[i].card_id)
    /\ \A i \in ChangesOfType("create") :
         /\ changes[i].card_id = NoneVal
         /\ \E k \in 1..Len(fs_cards) :
              /\ fs_cards[k].file_path = changes[i].file_path
              /\ ~HasId(server_cards, fs_cards[k].id)

\* A detection gave changes of two types, one of them for a card of the
\* remote snapshot.
ChangeListWellFormedWitness ==
    /\ pc = "preview"
    /\ Len(changes) >= 2
    /\ ChangesOfType("delete") # {}
    /\ ChangesOfType("update") \cup ChangesOfType("move") \cup ChangesOfType("create") # {}


\* The first line of the body of a local record.
FirstLine(rec) == Split(rec.body, <<"\n">>, -1)[1]

\* C37: a body whose first line is not exactly "# <title>" is compared as it
\* is: its card gets an update exactly when the title or the body, trimmed,
\* differs from the title or the description of the remote card.
PrefixHeadingKept ==
    pc = "status_preview" =>
        \A i \in 1..Len(fs_cards) :
            (HasId(server_cards, fs_cards[i].id)

             /\ FirstLine(fs_cards[i]) # <<"#", " ">> \o PyStr(LocalTitle(fs_cards[i])))
            => LET sc == ServerCard(server_cards, fs_cards[i].id) IN
               (\E k \in 1..Len(changes) :
                    changes[k].type = "update" /\ changes[k].card_id = fs_cards[i].id)
               <=> (~SameTitle(fs_cards[i], sc)
                    \/ Strip(fs_cards[i].body, Whitespace) # sc.card.description)


\* The file has no preamble that parses to a mapping with an id.
LacksId(text) ==
    LET parts == Split(text, MarkerLine, 2) IN
    ~(/\ StartsWith(text, MarkerLine)
      /\ Len(parts) >= 3
      /\ YamlLoad(parts[2]).kind = "map"
      /\ Truthy(Get(YamlLoad(parts[2]).map, KId, NoneVal)))

\* The tree without its files that lack an id.
WithIdOnly(t) == SelectSeq(t, LAMBDA e : ~LacksId(e.text))

\* C38: the files without an id contribute nothing to a push: the change list
\* is the one detected on the tree without them, no change names such a file,
\* and every card the push adds to the board has the title and the body of a
\* local record, which has an id.
NoIdContributesNothing ==
    pc \in {"preview", "confirm", "apply", "applying", "report"} =>
        /\ changes = detect_card_changes(load_filesystem_cards(WithIdOnly(tree)), server_cards)
        /\ \A i \in 1..Len(changes), k \in 1..Len(tree) :
             changes[i].file_path = tree[k].path => ~LacksId(tree[k].text)
        /\ \A id \in CalledIds("add_card") :
             \E k \in 1..Len(fs_cards) :
                /\ Truthy(fs_cards[k].id)
                /\ LocalTitle(fs_cards[k]) = StrVal(RemoteCard(id).title)
                /\ fs_cards[k].body = RemoteCard(id).description

\* A push has applied changes while a file without an id is in the tree.
NoIdContributesNothingWitness ==
    /\ pc = "report"
    /\ calls # <<>>
    /\ \E k \in 1..Len(tree) : IsCandidate(tree[k].path) /\ LacksId(tree[k].text)


\* The cards of the board before and after a step differ at most in the
\* given fields of the card with this id.
OnlyFieldsOf(id, fields) ==
    /\ Len(remote') = Len(remote)
    /\ \A i \in 1..Len(remote) :
         /\ remote'[i].id = remote[i].id
         /\ \A f \in DOMAIN remote[i] :
              remote'[i][f] # remote[i][f] => (remote[i].id = id /\ f \in fields)

\* C39: a turn of the apply loop touches only what its change names: an
\* update the title and the description of its card, a move the list of its
\* card, a delete the archived mark of its card, which it sets; a create
\* leaves every card as it is and, when it counts, adds one card to the list
\* its list name resolves to, and none when it does not count.
ApplyTouchesOnlyNamed ==
    [][LoopTurn =>
        LET change == changes[idx] IN
        CASE change.type = "update" -> OnlyFieldsOf(change.card_id.v, {"title", "description"})
          [] change.type = "move" -> OnlyFieldsOf(change.card_id.v, {"list"})
          [] change.type = "delete" ->
               /\ OnlyFieldsOf(change.card_id.v, {"archived"})
               /\ \A i \in 1..Len(remote) : remote[i].archived => remote'[i].archived
          [] change.type = "create" ->
               /\ SubSeq(remote', 1, Len(remote)) = remote
               /\ IF success_count' = success_count + 1
                  THEN /\ Len(remote') = Len(remote) + 1
                       /\ remote'[Len(remote')].list = ListByName(change.new_data.list_name)
                       /\ ~remote'[Len(remote')].archived
                       /\ \A i \in 1..Len(remote) : remote[i].id # remote'[Len(remote')].id
                  ELSE remote' = remote]_vars

\* A push has edited, moved, archived or added a card of a board of two cards.
ApplyTouchesOnlyNamedWitness ==
    /\ pc = "report"
    /\ calls # <<>>
    /\ Len(remote) >= 2
    /\ \E i \in 1..Len(changes) : changes[i].type \in {"update", "move"}

====
